---- MODULE Spec2Model ----
(***************************************************************************)
(* A model of the content indexing and retrieval engine of msrcapi:        *)
(*   app/services/cache.py           CacheService  (in-memory TTL cache)   *)
(*   app/services/database.py        DatabaseService (sqlite tables)       *)
(*   app/services/file_service.py    FileService (content, tree, listing)  *)
(*   app/services/search_service.py  SearchService (registry, search)      *)
(*                                                                         *)
(* Python values are encoded as follows.                                   *)
(*   str            a sequence of code points, "a/b" = <<97, 47, 98>>      *)
(*   Optional[X]    None = <<>>, a present x = <<x>>                       *)
(*   cache values   [kind, str, json]: kind "str" carries str, kind "json" *)
(*                  carries the document in the one-element sequence json  *)
(*   time.time()    the integer variable now, which never decreases        *)
(***************************************************************************)
EXTENDS Integers, Sequences, FiniteSets, TLC

VARIABLES
    store,            \* CacheService._store : key -> CacheEntry
    hits,             \* CacheService.hits
    misses,           \* CacheService.misses
    cache_connected,  \* CacheService._connected
    hist,             \* history: key -> the last set() of that key still in force
    now,              \* the wall clock read by time.time()
    fs,               \* the corpus on disk, <dataRoot>/<version>/src/...
    db,               \* the sqlite tables: versions, file_tree_cache
    registry,         \* SearchService._file_registry, as an ordered list of pairs
    ready,            \* SearchService._ready
    heap,             \* the mutable objects callers and the cache hold, by identity
    loop,             \* the event loop: the coroutines in progress and the one running
    indexer,          \* VersionIndexer._gather_file_metadata: its tasks, semaphore and list
    db_connected,     \* DatabaseService._connected
    last              \* the last operation performed and what it returned

vars == <<store, hits, misses, cache_connected, hist, now, fs, db, registry, ready, heap, loop, indexer, db_connected, last>>

----------------------------------------------------------------------------
(* Bounds of the model.                                                    *)

\* how many one-second steps the clock takes inside one TTL period
MaxUnitTicks == 2
\* how many whole TTL periods the clock jumps
MaxTtlTicks == 1
\* the cache lookups after which no further operation is started
MaxLookups == 2
\* the cache lookups after which no further search is started
MaxSearchLookups == 9
\* the largest limit and offset a search is requested with
MaxLimit == 2
\* objects alive on the heap
MaxObjects == 4
\* lookups counted before the hit rate is read
MaxRateLookups == 4
MaxOffset == 2
\* coroutines the event loop holds at a time
MaxTasks == 2
\* cache lookups made by the requests the event loop runs
MaxTaskLookups == 2
\* settings.threads, the permits of the indexer's semaphore (8 unless configured)
threads == 2

----------------------------------------------------------------------------
(* Python values.                                                          *)

None == <<>>

Some(x) == <<x>>

IsNone(o) == Len(o) = 0

\* the truth value Python gives a str: a str is truthy unless it is empty
StrTruthy(s) == Len(s) > 0

\* the truth value Python gives an Optional[int] / Optional[float]
NumTruthy(o) == Len(o) > 0 /\ o[1] # 0

StrVal(s) == [kind |-> "str", str |-> s, json |-> <<>>]

JsonVal(j) == [kind |-> "json", str |-> <<>>, json |-> <<j>>]

\* str.__lt__: lexicographic order on code points
RECURSIVE StrLess(_, _)
StrLess(a, b) ==
    IF Len(b) = 0 THEN FALSE
    ELSE IF Len(a) = 0 THEN TRUE
    ELSE IF a[1] < b[1] THEN TRUE
    ELSE IF a[1] > b[1] THEN FALSE
    ELSE StrLess(Tail(a), Tail(b))

\* one code point of str.lower(): A-Z map to a-z
\* a lower() that leaves every letter as it is
KeepCase(s) == s

LowerChar(c) == IF c >= 65 /\ c <= 90 THEN c + 32 ELSE c

\* what str.lower() makes of one code point: U+0130, capital I with dot above,
\* becomes the two code points "i" and U+0307; it is the only code point
\* whose lower() is longer than one
LowerCode(c) == IF c = 304 THEN <<105, 775>> ELSE <<LowerChar(c)>>

\* str.lower()
RECURSIVE Lower(_)
Lower(s) == IF Len(s) = 0 THEN <<>> ELSE LowerCode(s[1]) \o Lower(Tail(s))

----------------------------------------------------------------------------
(* app/config.py                                                           *)

cache_ttl == 3600

----------------------------------------------------------------------------
(* app/services/cache.py                                                   *)

\* "file:" and "tree:"
FilePrefix == <<102, 105, 108, 101, 58>>

TreePrefix == <<116, 114, 101, 101, 58>>

\* a key for file contents that leaves the version out
cache_key_file_unscoped(version, path) == FilePrefix \o path

cache_key_file(version, path) == FilePrefix \o version \o <<58>> \o path

cache_key_tree(version) == TreePrefix \o version

CacheEntry(value, expires_at) == [value |-> value, expires_at |-> expires_at]

\* the test of _purge_expired: entry.expires_at and entry.expires_at < now
IsExpired(entry, t) == NumTruthy(entry.expires_at) /\ entry.expires_at[1] < t

\* a sweep that also takes the entries expiring at this very instant
PurgeExpiredInclusive(s, t) ==
    [k \in {k \in DOMAIN s : ~(NumTruthy(s[k].expires_at) /\ s[k].expires_at[1] <= t)} |-> s[k]]

\* _purge_expired: the whole store is scanned, every expired entry is deleted
PurgeExpired(s, t) ==
    LET keep == {k \in DOMAIN s : ~IsExpired(s[k], t)}
    IN  [k \in keep |-> s[k]]

\* self._store.get(key) after the purge, with "if entry:" (an entry object is truthy)
Lookup(s, t, key) ==
    LET p == PurgeExpired(s, t)
    IN  IF key \in DOMAIN p THEN Some(p[key]) ELSE None

\* the counters after get(): exactly one of them moves
HitsAfterBoth(found, h) == h + 1

HitsAfter(found, h) == IF found THEN h + 1 ELSE h

MissesAfter(found, m) == IF found THEN m ELSE m + 1

\* get(): the value returned
GetValue(s, t, key) ==
    LET e == Lookup(s, t, key)
    IN  IF IsNone(e) THEN None ELSE Some(e[1].value)

\* get_json: deepcopy of the value, None stays None
GetJsonValue(s, t, key) == GetValue(s, t, key)

\* get_str: value if isinstance(value, str) else None
GetStrValue(s, t, key) ==
    LET v == GetValue(s, t, key)
    IN  IF ~IsNone(v) /\ v[1].kind = "str" THEN v ELSE None

\* set(): expires_at = time.time() + ttl if ttl else None
ExpiresAtNoTtl(t, ttl) == None

ExpiresAt(t, ttl) == IF NumTruthy(ttl) THEN Some(t + ttl[1]) ELSE None

SetEntry(s, t, key, value, ttl) ==
    [k \in DOMAIN s \cup {key} |->
        IF k = key THEN CacheEntry(value, ExpiresAt(t, ttl)) ELSE s[k]]

\* history of set(): which value, with which ttl, at what time
HistSet(h, t, key, value, ttl) ==
    [k \in DOMAIN h \cup {key} |->
        IF k = key THEN [value |-> value, ttl |-> ttl, at |-> t] ELSE h[k]]

Without(f, keys) == [k \in DOMAIN f \ keys |-> f[k]]

CanLookup == hits + misses < MaxLookups

CanSearch == hits + misses < MaxSearchLookups

\* keys and values the cache operations are exercised with
CacheKeys == {cache_key_file(<<49>>, <<97>>), cache_key_tree(<<49>>)}

CacheValues == {StrVal(<<120>>), JsonVal(<<1>>)}

CacheTtls == {None, Some(1)}

\* is_connected(): self._connected
is_connected == cache_connected

\* a connect() that would also empty the store
connect_clearing ==
    /\ cache_connected' = TRUE
    /\ store' = <<>>
    /\ last' = [op |-> "connect", again |-> last.op = "connect"]
    /\ UNCHANGED <<hits, misses, hist, now, fs, db, registry, ready, heap, loop, indexer, db_connected>>

connect ==
    /\ cache_connected' = TRUE
    /\ last' = [op |-> "connect", again |-> last.op = "connect"]
    /\ UNCHANGED <<store, hits, misses, hist, now, fs, db, registry, ready, heap, loop, indexer, db_connected>>

\* a disconnect that would start the counters afresh
disconnect_resetting ==
    /\ store' = <<>>
    /\ hist' = <<>>
    /\ hits' = 0
    /\ misses' = 0
    /\ cache_connected' = FALSE
    /\ last' = [op |-> "disconnect", again |-> last.op = "disconnect"]
    /\ UNCHANGED <<now, fs, db, registry, ready, heap, loop, indexer, db_connected>>

disconnect ==
    /\ store' = <<>>
    /\ hist' = <<>>
    /\ cache_connected' = FALSE
    /\ last' = [op |-> "disconnect", again |-> last.op = "disconnect"]
    /\ UNCHANGED <<hits, misses, now, fs, db, registry, ready, heap, loop, indexer, db_connected>>

CacheGetOp(name, key, ret) ==
    /\ store' = PurgeExpired(store, now)
    /\ hits' = HitsAfter(~IsNone(Lookup(store, now, key)), hits)
    /\ misses' = MissesAfter(~IsNone(Lookup(store, now, key)), misses)
    /\ last' = [op |-> name, key |-> key, ret |-> ret,
                swept |-> DOMAIN store \ DOMAIN PurgeExpired(store, now)]
    /\ UNCHANGED <<cache_connected, hist, now, fs, db, registry, ready, heap, loop, indexer, db_connected>>

get(key) == CanLookup /\ CacheGetOp("get", key, GetValue(store, now, key))

get_json(key) == CanLookup /\ CacheGetOp("get_json", key, GetJsonValue(store, now, key))

get_str(key) == CanLookup /\ CacheGetOp("get_str", key, GetStrValue(store, now, key))

\* get() while the hit rate is being measured: the same lookup, counted further
counted_get(key) ==
    hits + misses < MaxRateLookups /\ CacheGetOp("get", key, GetValue(store, now, key))

\* a float quotient n / d, kept exact as a fraction in lowest terms; 0.0 is 0/1
RECURSIVE Gcd(_, _)
Gcd(a, b) == IF b = 0 THEN a ELSE Gcd(b, a % b)

Quotient(n, d) == [num |-> n \div Gcd(n, d), den |-> d \div Gcd(n, d)]

\* get_hit_rate: hits / total if total > 0 else 0.0
HitRateOverMisses(h, m) == IF m > 0 THEN Quotient(h, m) ELSE Quotient(0, 1)

HitRate(h, m) ==
    LET total == h + m
    IN  IF total > 0 THEN Quotient(h, total) ELSE Quotient(0, 1)

get_hit_rate ==
    /\ last' = [op |-> "get_hit_rate", ret |-> HitRate(hits, misses)]
    /\ UNCHANGED <<store, hits, misses, cache_connected, hist, now, fs, db, registry, ready, heap, loop, indexer, db_connected>>

CacheSetOp(name, key, value, ttl) ==
    /\ store' = SetEntry(store, now, key, value, ttl)
    /\ hist' = HistSet(hist, now, key, value, ttl)
    /\ last' = [op |-> "set", key |-> key]
    /\ UNCHANGED <<hits, misses, cache_connected, now, fs, db, registry, ready, heap, loop, indexer, db_connected>>

set(key, value, ttl) == CacheSetOp("set", key, value, ttl)

set_json(key, value, ttl) == value.kind = "json" /\ CacheSetOp("set_json", key, value, ttl)

set_str(key, value, ttl) == value.kind = "str" /\ CacheSetOp("set_str", key, value, ttl)

delete(key) ==
    /\ store' = Without(store, {key})
    /\ hist' = Without(hist, {key})
    /\ last' = [op |-> "delete", key |-> key]
    /\ UNCHANGED <<hits, misses, cache_connected, now, fs, db, registry, ready, heap, loop, indexer, db_connected>>

\* fnmatch.fnmatch(key, pattern) for patterns of literals, "*" and "?"
RECURSIVE fnmatch(_, _)
fnmatch(name, pattern) ==
    IF Len(pattern) = 0 THEN Len(name) = 0
    ELSE IF pattern[1] = 42
         THEN fnmatch(name, Tail(pattern)) \/ (Len(name) > 0 /\ fnmatch(Tail(name), pattern))
    ELSE IF Len(name) = 0 THEN FALSE
    ELSE (pattern[1] = 63 \/ pattern[1] = name[1]) /\ fnmatch(Tail(name), Tail(pattern))

\* the patterns "file:*" and "tree:?"
CachePatterns == {FilePrefix \o <<42>>, TreePrefix \o <<63>>}

delete_pattern(pattern) ==
    /\ store' = Without(store, {k \in DOMAIN store : fnmatch(k, pattern)})
    /\ hist' = Without(hist, {k \in DOMAIN hist : fnmatch(k, pattern)})
    /\ last' = [op |-> "delete_pattern", pattern |-> pattern]
    /\ UNCHANGED <<hits, misses, cache_connected, now, fs, db, registry, ready, heap, loop, indexer, db_connected>>

exists(key) ==
    /\ store' = PurgeExpired(store, now)
    /\ last' = [op |-> "exists", key |-> key, ret |-> key \in DOMAIN PurgeExpired(store, now),
                swept |-> DOMAIN store \ DOMAIN PurgeExpired(store, now)]
    /\ UNCHANGED <<hits, misses, cache_connected, hist, now, fs, db, registry, ready, heap, loop, indexer, db_connected>>

----------------------------------------------------------------------------
(* Structured values by identity.  A dict or list is a mutable object: the  *)
(* heap gives each object its current document and whether a caller holds   *)
(* a reference to it; the store holds references.  set_json and get_json    *)
(* are the operations above, taken at the level of object identity.         *)

\* the documents an object may hold: {"n": 0} and {"n": 1}
Docs == {0, 1}

ObjVal(id) == [kind |-> "obj", id |-> id]

\* copy.deepcopy(obj): a new object with the same document, at the next address
deepcopy(h, id) == Append(h, [doc |-> h[id].doc, held |-> FALSE])

\* what set_json hands to set(): the copy, not the caller's object
StoredArg(arg, copy) == arg

StoredRef(arg, copy) == copy

\* what get_json hands back: a copy, not the stored object
ReturnedRef(stored, copy) == copy

\* a caller builds a dict
caller_new(doc) ==
    /\ Len(heap) < MaxObjects
    /\ heap' = Append(heap, [doc |-> doc, held |-> TRUE])
    /\ last' = [op |-> "new", obj |-> Len(heap) + 1]
    /\ UNCHANGED <<store, hits, misses, cache_connected, hist, now, fs, db, registry, ready, loop, indexer, db_connected>>

\* a caller changes a dict it holds, in place
mutate(obj, doc) ==
    /\ obj \in DOMAIN heap
    /\ heap[obj].held
    /\ heap[obj].doc # doc
    /\ heap' = [heap EXCEPT ![obj].doc = doc]
    /\ last' = [op |-> "mutate", obj |-> obj]
    /\ UNCHANGED <<store, hits, misses, cache_connected, hist, now, fs, db, registry, ready, loop, indexer, db_connected>>

\* set_json(key, obj, ttl): set(key, copy.deepcopy(obj), ttl)
set_json_obj(key, obj, ttl) ==
    /\ obj \in DOMAIN heap
    /\ heap[obj].held
    /\ Len(heap) < MaxObjects
    /\ heap' = deepcopy(heap, obj)
    /\ store' = SetEntry(store, now, key, ObjVal(StoredRef(obj, Len(heap) + 1)), ttl)
    /\ hist' = HistSet(hist, now, key, JsonVal(heap[obj].doc), ttl)
    /\ last' = [op |-> "set_json", key |-> key, obj |-> obj]
    /\ UNCHANGED <<hits, misses, cache_connected, now, fs, db, registry, ready, loop, indexer, db_connected>>

\* get_json(key): value = get(key); copy.deepcopy(value) if value is not None else None
get_json_obj(key) ==
    /\ CanLookup
    /\ store' = PurgeExpired(store, now)
    /\ hits' = HitsAfter(~IsNone(Lookup(store, now, key)), hits)
    /\ misses' = MissesAfter(~IsNone(Lookup(store, now, key)), misses)
    /\ IF IsNone(Lookup(store, now, key))
       THEN /\ heap' = heap
            /\ last' = [op |-> "get_json", key |-> key, ret |-> None, doc |-> None]
       ELSE LET stored == Lookup(store, now, key)[1].value.id
                r == ReturnedRef(stored, Len(heap) + 1)
            IN  /\ Len(heap) < MaxObjects
                /\ heap' = [deepcopy(heap, stored) EXCEPT ![r].held = TRUE]
                /\ last' = [op |-> "get_json", key |-> key, ret |-> Some(ObjVal(r)),
                            doc |-> Some(heap[stored].doc)]
    /\ UNCHANGED <<cache_connected, hist, now, fs, db, registry, ready, loop, indexer, db_connected>>

----------------------------------------------------------------------------
(* The event loop.  Every method of CacheService is a coroutine, and the   *)
(* requests that call them are tasks of one asyncio event loop: a task     *)
(* runs, statement after statement, until it reaches an await that has to  *)
(* wait, and only then can another task run.  The coroutines below are     *)
(* set() and get() of app/services/cache.py taken one statement at a time; *)
(* none of their statements is such an await.  time.time() moves on        *)
(* between any two statements.                                             *)

Idle == [pc |-> "idle"]

NoTasks == [running |-> 0, tasks |-> [id \in 1..MaxTasks |-> Idle]]

\* a scheduler that would let any coroutine run between any two statements
CanRunPreempted(id) == TRUE

\* the loop runs a coroutine when no other one is between two statements
CanRun(id) == loop.running \in {0, id}

\* the coroutine goes on to its next statement
Resume(id, rec) == [running |-> id, tasks |-> [loop.tasks EXCEPT ![id] = rec]]

\* the coroutine returns or raises
Finish(id) == [running |-> 0, tasks |-> [loop.tasks EXCEPT ![id] = Idle]]

\* the orders in which a list comprehension over a dict may yield the keys S
RECURSIVE ListsOf(_)
ListsOf(S) ==
    IF S = {} THEN {<<>>}
    ELSE UNION {{<<x>> \o l : l \in ListsOf(S \ {x})} : x \in S}

\* set(), line 58: expires_at = time.time() + ttl if ttl else None
co_set(id, key, value, ttl) ==
    /\ CanRun(id)
    /\ loop.tasks[id].pc = "idle"
    /\ loop' = Resume(id, [pc |-> "set_59", key |-> key, value |-> value, ttl |-> ttl,
                           at |-> now, expires_at |-> ExpiresAt(now, ttl)])
    /\ last' = [op |-> "co_step", task |-> id]
    /\ UNCHANGED <<store, hits, misses, cache_connected, hist, now, fs, db, registry, ready, heap, indexer, db_connected>>

\* set(), line 59: self._store[key] = CacheEntry(value, expires_at)
co_set_store(id) ==
    LET t == loop.tasks[id]
    IN  /\ CanRun(id)
        /\ t.pc = "set_59"
        /\ store' = [k \in DOMAIN store \cup {t.key} |->
                        IF k = t.key THEN CacheEntry(t.value, t.expires_at) ELSE store[k]]
        /\ hist' = HistSet(hist, t.at, t.key, t.value, t.ttl)
        /\ loop' = Finish(id)
        /\ last' = [op |-> "co_set", task |-> id, key |-> t.key,
                    replaced |-> IF t.key \in DOMAIN store THEN Some(store[t.key]) ELSE None]
        /\ UNCHANGED <<hits, misses, cache_connected, now, fs, db, registry, ready, heap, indexer, db_connected>>

\* get(), line 41, into _purge_expired, line 31: now = time.time()
co_get(id, key) ==
    /\ CanRun(id)
    /\ CanLookup
    /\ loop.tasks[id].pc = "idle"
    /\ loop' = Resume(id, [pc |-> "purge_32", key |-> key, now |-> now, expired |-> <<>>])
    /\ last' = [op |-> "co_step", task |-> id]
    /\ UNCHANGED <<store, hits, misses, cache_connected, hist, now, fs, db, registry, ready, heap, indexer, db_connected>>

\* _purge_expired, line 32: expired = [key for key, entry in self._store.items() if ...]
co_purge_scan(id, expired) ==
    LET t == loop.tasks[id]
    IN  /\ CanRun(id)
        /\ t.pc = "purge_32"
        /\ expired \in ListsOf({k \in DOMAIN store : IsExpired(store[k], t.now)})
        /\ loop' = Resume(id, [t EXCEPT !.pc = IF Len(expired) = 0 THEN "get_42" ELSE "purge_34",
                                        !.expired = expired])
        /\ last' = [op |-> "co_step", task |-> id]
        /\ UNCHANGED <<store, hits, misses, cache_connected, hist, now, fs, db, registry, ready, heap, indexer, db_connected>>

\* _purge_expired, lines 33-34: del self._store[key], for the next key of expired;
\* a key that is no longer in the dict raises KeyError
co_purge_del(id) ==
    LET t == loop.tasks[id]
        key == Head(t.expired)
    IN  /\ CanRun(id)
        /\ t.pc = "purge_34"
        /\ store' = Without(store, {key})
        /\ loop' = IF key \notin DOMAIN store THEN Finish(id)
                   ELSE Resume(id, [t EXCEPT !.pc = IF Len(t.expired) = 1 THEN "get_42" ELSE "purge_34",
                                             !.expired = Tail(t.expired)])
        /\ last' = [op |-> "co_purge", task |-> id, key |-> key,
                    raised |-> key \notin DOMAIN store,
                    expired |-> key \in DOMAIN store /\ IsExpired(store[key], now)]
        /\ UNCHANGED <<hits, misses, cache_connected, hist, now, fs, db, registry, ready, heap, indexer, db_connected>>

\* get(), lines 42-47: entry = self._store.get(key), the counters, return entry.value
co_get_return(id) ==
    LET t == loop.tasks[id]
        entry == IF t.key \in DOMAIN store THEN Some(store[t.key]) ELSE None
    IN  /\ CanRun(id)
        /\ t.pc = "get_42"
        /\ hits' = HitsAfter(~IsNone(entry), hits)
        /\ misses' = MissesAfter(~IsNone(entry), misses)
        /\ loop' = Finish(id)
        /\ last' = [op |-> "co_get", task |-> id, key |-> t.key, entry |-> entry,
                    at |-> t.now, seen |-> store,
                    sweeping |-> {i \in 1..MaxTasks \ {id} : loop.tasks[i].pc = "purge_34"}]
        /\ UNCHANGED <<store, cache_connected, hist, now, fs, db, registry, ready, heap, indexer, db_connected>>

----------------------------------------------------------------------------
(* The clock: time.time() advances by one second or by a whole TTL period. *)

\* the clock step remembers the search it follows, if any: a client may fetch
\* the next page of that search after some time has passed
TickBy(d) ==
    /\ now' = now + d
    /\ last' = [op |-> "tick",
                before |-> IF last.op = "search" THEN Some(last)
                           ELSE IF last.op = "tick" THEN last.before ELSE None]
    /\ UNCHANGED <<store, hits, misses, cache_connected, hist, fs, db, registry, ready, heap, loop, indexer, db_connected>>

TickSecond == (now % cache_ttl) < MaxUnitTicks /\ TickBy(1)

TickTtl == (now \div cache_ttl) < MaxTtlTicks /\ TickBy(cache_ttl)

\* a step that carries the clock past the expiry of everything cached so far
TickPastTtl == (now \div cache_ttl) < MaxTtlTicks /\ TickBy(cache_ttl + 1)

----------------------------------------------------------------------------
(* The corpus on disk.  fs maps each version directory that exists under   *)
(* <dataRoot> to [src, nodes]: src tells what <version>/src is ("none",    *)
(* "dir" or "file"), nodes maps the paths below src (sequences of names)   *)
(* to [type, content, readable].  A file's size is the length of its       *)
(* content; a file or directory that is not readable raises on open() or   *)
(* iterdir().                                                              *)

FileOnDisk(content) == [type |-> "file", content |-> content, readable |-> TRUE]

DirOnDisk == [type |-> "dir", content |-> <<>>, readable |-> TRUE]

\* pathlib's parsing of a relative path: the names between the "/"
RECURSIVE SplitPath(_, _)
SplitPath(s, cur) ==
    IF Len(s) = 0 THEN (IF Len(cur) = 0 THEN <<>> ELSE <<cur>>)
    ELSE IF s[1] = 47 THEN (IF Len(cur) = 0 THEN <<>> ELSE <<cur>>) \o SplitPath(Tail(s), <<>>)
    ELSE SplitPath(Tail(s), Append(cur, s[1]))

\* str(path.relative_to(root)): the names joined by "/", "." for the root itself
RECURSIVE JoinPath(_)
JoinPath(comps) ==
    IF Len(comps) = 0 THEN <<46>>
    ELSE IF Len(comps) = 1 THEN comps[1]
    ELSE comps[1] \o <<47>> \o JoinPath(Tail(comps))

\* get_file_path: data_dir / version / "src" / relative_path
get_file_path(version, relative_path) == [version |-> version, comps |-> SplitPath(relative_path, <<>>)]

SrcKind(version) == IF version \in DOMAIN fs THEN fs[version].src ELSE "none"

\* Path.exists()
PathExists(p) ==
    /\ SrcKind(p.version) # "none"
    /\ \/ p.comps = <<>>
       \/ SrcKind(p.version) = "dir" /\ p.comps \in DOMAIN fs[p.version].nodes

\* Path.is_dir()
PathIsDir(p) ==
    /\ PathExists(p)
    /\ IF p.comps = <<>> THEN SrcKind(p.version) = "dir"
       ELSE fs[p.version].nodes[p.comps].type = "dir"

\* Path.is_file()
PathIsFile(p) == PathExists(p) /\ ~PathIsDir(p)

\* the content of a regular file; <<>> for anything else
PathContent(p) ==
    IF ~PathIsFile(p) THEN <<>>
    ELSE IF p.comps = <<>> THEN <<>>
    ELSE fs[p.version].nodes[p.comps].content

\* Path.stat().st_size
StatSize(p) == Len(PathContent(p))

\* whether open() + read() of the path succeeds (a directory, an unreadable
\* file and undecodable bytes all raise)
CanRead(p) ==
    /\ PathIsFile(p)
    /\ p.comps = <<>> \/ fs[p.version].nodes[p.comps].readable

\* a walk in which the PermissionError of a subdirectory also ends the
\* listing of the directory above it
CanListSubdirs(p) ==
    /\ PathIsDir(p)
    /\ p.comps = <<>> \/ fs[p.version].nodes[p.comps].readable
    /\ \A c \in DOMAIN fs[p.version].nodes :
          (Len(c) = Len(p.comps) + 1 /\ SubSeq(c, 1, Len(p.comps)) = p.comps
           /\ fs[p.version].nodes[c].type = "dir")
             => fs[p.version].nodes[c].readable

\* whether iterdir() of the directory succeeds (PermissionError otherwise)
CanList(p) ==
    /\ PathIsDir(p)
    /\ p.comps = <<>> \/ fs[p.version].nodes[p.comps].readable

\* the entries of a directory
DirEntries(p) ==
    {c \in DOMAIN fs[p.version].nodes :
        Len(c) = Len(p.comps) + 1 /\ SubSeq(c, 1, Len(p.comps)) = p.comps}

----------------------------------------------------------------------------
(* app/services/database.py: the tables the core and the indexer read and  *)
(* write.  db.versions is the set of ids with a row in versions,           *)
(* db.decompiled the ids of the rows with decompiled = 1 in release_time   *)
(* DESC order, db.file_tree_cache maps a version_id to the text in         *)
(* tree_json, and db.files is the set of rows of files.                    *)

\* json.dumps(tree)
json_dumps(tree) == [valid |-> TRUE, doc |-> <<tree>>]

\* a tree_json text that json.loads rejects
CorruptText == [valid |-> FALSE, doc |-> <<>>]

\* json.loads with "except json.JSONDecodeError: return None"
json_loads(text) == IF text.valid THEN text.doc ELSE None

\* whether json.loads raises JSONDecodeError on the row's tree_json
decode_fails(d, version_id) ==
    version_id \in DOMAIN d.file_tree_cache /\ ~d.file_tree_cache[version_id].valid

\* DatabaseService.get_file_tree
db_get_file_tree(d, version_id) ==
    IF version_id \in DOMAIN d.file_tree_cache
    THEN json_loads(d.file_tree_cache[version_id])
    ELSE None

\* FOREIGN KEY(version_id) REFERENCES versions(id), enforced by
\* PRAGMA foreign_keys = ON in execute(): the insert raises IntegrityError
ForeignKeyOk(d, version_id) == version_id \in d.versions

\* add_files_bulk: PRAGMA foreign_keys = ON, then the INSERTs; the first row of a
\* version without a versions row raises IntegrityError
BulkForeignKeyOk(d, version_id) == version_id \in d.versions

\* DatabaseService.add_files_bulk, when the inserts are accepted: a row with
\* the same (version_id, path) is replaced
db_add_files_bulk(d, version_id, files) ==
    LET rows == {[version_id |-> version_id, path |-> files[i].path,
                  package |-> files[i].package, class_name |-> files[i].class_name,
                  size_bytes |-> files[i].size_bytes, line_count |-> files[i].line_count] :
                 i \in 1..Len(files)}
    IN  [d EXCEPT !.files =
            {f \in @ : ~\E r \in rows : r.version_id = f.version_id /\ r.path = f.path} \cup rows]

\* DatabaseService.upsert_version with decompiled set: the row is inserted or
\* updated; newest tells where its release_time puts it among the decompiled
db_upsert_version(d, version_id, newest) ==
    LET others == SelectSeq(d.decompiled, LAMBDA v : v # version_id)
    IN  [d EXCEPT !.versions = @ \cup {version_id},
                  !.decompiled = IF newest THEN <<version_id>> \o others
                                 ELSE Append(others, version_id)]

\* a cache_file_tree that would persist nothing
db_cache_file_tree_dropped(d, version_id, tree) == d

\* DatabaseService.cache_file_tree, when the insert is accepted
db_cache_file_tree(d, version_id, tree) ==
    [d EXCEPT !.file_tree_cache =
        [v \in DOMAIN d.file_tree_cache \cup {version_id} |->
            IF v = version_id THEN json_dumps(tree) ELSE d.file_tree_cache[v]]]

----------------------------------------------------------------------------
(* app/services/file_service.py                                            *)

FileContent(path, content, size, version) ==
    [path |-> path, content |-> content, size |-> size, language |-> "java", version |-> version]

\* what "if cached:" makes of the Optional[str] that get_str returned
CachedTruthy(cached) == ~IsNone(cached) /\ StrTruthy(cached[1].str)

\* FileService.get_file_content: the value returned, s being the cache's store
get_file_content_ret(s, version, path) ==
    LET cached == GetStrValue(s, now, cache_key_file(version, path))
        file_path == get_file_path(version, path)
    IN  IF CachedTruthy(cached)
        THEN Some(FileContent(path, cached[1].str,
                              IF PathExists(file_path) THEN StatSize(file_path) ELSE 0, version))
        ELSE IF ~PathExists(file_path) THEN None
        ELSE IF ~CanRead(file_path) THEN None
        ELSE Some(FileContent(path, PathContent(file_path), StatSize(file_path), version))

\* whether get_file_content reaches aiofiles.open
get_file_content_opens(s, version, path) ==
    /\ ~CachedTruthy(GetStrValue(s, now, cache_key_file(version, path)))
    /\ PathExists(get_file_path(version, path))

\* a get_file_content that would store whatever it opened
get_file_content_sets_unread(s, version, path) == get_file_content_opens(s, version, path)

\* whether get_file_content reaches cache.set_str
get_file_content_sets(s, version, path) ==
    /\ get_file_content_opens(s, version, path)
    /\ CanRead(get_file_path(version, path))

\* the cache after get_file_content: the lookup purges, a successful read is stored
get_file_content_store(s, version, path) ==
    IF get_file_content_sets(s, version, path)
    THEN SetEntry(PurgeExpired(s, now), now, cache_key_file(version, path),
                  StrVal(PathContent(get_file_path(version, path))), Some(cache_ttl))
    ELSE PurgeExpired(s, now)

get_file_content_hist(h, s, version, path) ==
    IF get_file_content_sets(s, version, path)
    THEN HistSet(h, now, cache_key_file(version, path),
                 StrVal(PathContent(get_file_path(version, path))), Some(cache_ttl))
    ELSE h

get_file_content(version, path) ==
    /\ CanLookup
    /\ store' = get_file_content_store(store, version, path)
    /\ hist' = get_file_content_hist(hist, store, version, path)
    /\ hits' = HitsAfter(~IsNone(Lookup(store, now, cache_key_file(version, path))), hits)
    /\ misses' = MissesAfter(~IsNone(Lookup(store, now, cache_key_file(version, path))), misses)
    /\ last' = [op |-> "get_file_content", version |-> version, path |-> path,
                ret |-> get_file_content_ret(store, version, path),
                opened |-> get_file_content_opens(store, version, path),
                raised |-> FALSE]
    /\ UNCHANGED <<cache_connected, now, fs, db, registry, ready, heap, loop, indexer, db_connected>>

FileNode(name, path, type, size, children) ==
    [name |-> name, path |-> path, type |-> type, size |-> size, children |-> children]

\* "src"
SrcName == <<115, 114, 99>>

\* a sort by name alone
ChildByName(version, x, y) == StrLess(x[Len(x)], y[Len(y)])

\* the sort key of _build_tree, (not x.is_dir(), x.name): x sorts before y
ChildBefore(version, x, y) ==
    LET xd == PathIsDir([version |-> version, comps |-> x])
        yd == PathIsDir([version |-> version, comps |-> y])
    IN  \/ xd /\ ~yd
        \/ xd = yd /\ StrLess(x[Len(x)], y[Len(y)])

\* sorted(current.iterdir(), key=...)
RECURSIVE SortChildren(_, _)
SortChildren(version, S) ==
    IF S = {} THEN <<>>
    ELSE LET m == CHOOSE x \in S : \A y \in S \ {x} : ChildBefore(version, x, y)
         IN  <<m>> \o SortChildren(version, S \ {m})

\* sorted(order, key=...) as the stable sort computes it from the order in
\* which iterdir() happened to yield the entries
RECURSIVE InsertChild(_, _, _)
InsertChild(version, x, sorted) ==
    IF Len(sorted) = 0 THEN <<x>>
    ELSE IF ChildBefore(version, x, sorted[1]) THEN <<x>> \o sorted
    ELSE <<sorted[1]>> \o InsertChild(version, x, Tail(sorted))

RECURSIVE sorted_children(_, _)
sorted_children(version, order) ==
    IF Len(order) = 0 THEN <<>>
    ELSE InsertChild(version, order[Len(order)],
                     sorted_children(version, SubSeq(order, 1, Len(order) - 1)))

\* FileService._build_tree(root, current)
RECURSIVE build_tree(_, _)
build_tree(version, comps) ==
    LET current == [version |-> version, comps |-> comps]
        name == IF comps = <<>> THEN SrcName ELSE comps[Len(comps)]
        order == IF CanList(current) THEN SortChildren(version, DirEntries(current)) ELSE <<>>
    IN  IF PathIsFile(current)
        THEN FileNode(name, JoinPath(comps), "file", Some(StatSize(current)), None)
        ELSE FileNode(name, JoinPath(comps), "directory", None,
                      Some([i \in 1..Len(order) |-> build_tree(version, order[i])]))

\* FileService.get_file_tree, tier 1: the in-memory cache
tree_cached(version) == GetJsonValue(store, now, cache_key_tree(version))

\* tier 2: the durable store, consulted only after a cache miss
tree_db_cached(version) == db_get_file_tree(db, version)

\* which tier answers: "cache", "db", "fs", or "none" when the source root is missing
tree_tier_db_first(version) ==
    IF ~IsNone(tree_db_cached(version)) THEN "db"
    ELSE IF ~IsNone(tree_cached(version)) THEN "cache"
    ELSE IF ~PathExists([version |-> version, comps |-> <<>>]) THEN "none"
    ELSE "fs"

tree_tier(version) ==
    IF ~IsNone(tree_cached(version)) THEN "cache"
    ELSE IF ~IsNone(tree_db_cached(version)) THEN "db"
    ELSE IF ~PathExists([version |-> version, comps |-> <<>>]) THEN "none"
    ELSE "fs"

\* the tree the answering tier yields
tree_value(version) ==
    CASE tree_tier(version) = "cache" -> tree_cached(version)[1].json[1]
      [] tree_tier(version) = "db" -> tree_db_cached(version)[1]
      [] tree_tier(version) = "fs" -> build_tree(version, <<>>)
      [] OTHER -> FileNode(<<>>, <<>>, "none", None, None)

\* get_file_tree if DatabaseService.get_file_tree lacked its except clause
tree_raises_undecoded(version) ==
    \/ tree_tier(version) = "fs" /\ ~ForeignKeyOk(db, version)
    \/ IsNone(tree_cached(version)) /\ decode_fails(db, version)

\* whether db.cache_file_tree raises (the rebuilt tree of a version without a versions row)
tree_raises(version) == tree_tier(version) = "fs" /\ ~ForeignKeyOk(db, version)

\* the ttl get_file_tree passes to cache.set_json
tree_ttl == Some(cache_ttl)

\* the cache after get_file_tree: a tier-2 or tier-3 answer is written back
get_file_tree_store_always(s, version) ==
    SetEntry(PurgeExpired(s, now), now, cache_key_tree(version),
             JsonVal(tree_value(version)), tree_ttl)

get_file_tree_store(s, version) ==
    IF tree_tier(version) \in {"db", "fs"}
    THEN SetEntry(PurgeExpired(s, now), now, cache_key_tree(version),
                  JsonVal(tree_value(version)), tree_ttl)
    ELSE PurgeExpired(s, now)

get_file_tree_hist(h, version) ==
    IF tree_tier(version) \in {"db", "fs"}
    THEN HistSet(h, now, cache_key_tree(version), JsonVal(tree_value(version)), tree_ttl)
    ELSE h

\* the durable store after get_file_tree: a rebuilt tree is persisted unless the insert raises
get_file_tree_db(d, version) ==
    IF tree_tier(version) = "fs" /\ ~tree_raises(version)
    THEN db_cache_file_tree(d, version, tree_value(version))
    ELSE d

get_file_tree(version) ==
    /\ CanLookup
    /\ store' = get_file_tree_store(store, version)
    /\ hist' = get_file_tree_hist(hist, version)
    /\ db' = get_file_tree_db(db, version)
    /\ hits' = HitsAfter(~IsNone(Lookup(store, now, cache_key_tree(version))), hits)
    /\ misses' = MissesAfter(~IsNone(Lookup(store, now, cache_key_tree(version))), misses)
    /\ last' = [op |-> "get_file_tree", version |-> version,
                tier |-> tree_tier(version),
                db_read |-> tree_tier(version) # "cache",
                walked |-> tree_tier(version) = "fs",
                decode_failed |-> IsNone(tree_cached(version)) /\ decode_fails(db, version),
                raised |-> tree_raises(version),
                ret |-> IF tree_tier(version) = "none" \/ tree_raises(version)
                        THEN None ELSE Some(tree_value(version))]
    /\ UNCHANGED <<cache_connected, now, fs, registry, ready, heap, loop, indexer, db_connected>>

\* ".java"
JavaSuffix == <<46, 106, 97, 118, 97>>

\* the pattern "*.java" of rglob, matched against the last name of a path
MatchesJava(name) ==
    Len(name) >= Len(JavaSuffix) /\ SubSeq(name, Len(name) - Len(JavaSuffix) + 1, Len(name)) = JavaSuffix

\* sorted(files): ascending by str
RECURSIVE SortStrs(_)
SortStrs(S) ==
    IF S = {} THEN <<>>
    ELSE LET m == CHOOSE x \in S : \A y \in S \ {x} : StrLess(x, y)
         IN  <<m>> \o SortStrs(S \ {m})

\* whether rglob descends to the path: every directory above it can be listed
Reachable(version, under, c) ==
    /\ Len(c) > Len(under)
    /\ SubSeq(c, 1, Len(under)) = under
    /\ \A n \in Len(under)..(Len(c) - 1) :
          CanList([version |-> version, comps |-> SubSeq(c, 1, n)])

\* FileService.list_files
list_files_ret(version, directory) ==
    LET dir_path == get_file_path(version, directory)
    IN  IF ~PathExists(dir_path) \/ ~PathIsDir(dir_path) THEN <<>>
        ELSE SortStrs({JoinPath(c) : c \in {c \in DOMAIN fs[version].nodes :
                          Reachable(version, dir_path.comps, c) /\ MatchesJava(c[Len(c)])}})

list_files(version, directory) ==
    /\ last' = [op |-> "list_files", version |-> version, directory |-> directory,
                ret |-> list_files_ret(version, directory), raised |-> FALSE]
    /\ UNCHANGED <<store, hits, misses, cache_connected, hist, now, fs, db, registry, ready, heap, loop, indexer, db_connected>>

----------------------------------------------------------------------------
(* app/services/search_service.py                                          *)
(* _file_registry is a dict, which keeps its keys in insertion order: the  *)
(* registry is the sequence of its items [version, files].                 *)

RegistryKeys(r) == [i \in 1..Len(r) |-> r[i].version]

RegistryHas(r, version) == \E i \in 1..Len(r) : r[i].version = version

\* self._file_registry.get(version)
RegistryGet(r, version) ==
    IF RegistryHas(r, version)
    THEN Some(r[CHOOSE i \in 1..Len(r) : r[i].version = version].files)
    ELSE None

\* an assignment that would start the registry afresh
RegistrySetAlone(r, version, files) == <<[version |-> version, files |-> files]>>

\* self._file_registry[version] = files: a known key keeps its place, a new one goes last
RegistrySet(r, version, files) ==
    IF RegistryHas(r, version)
    THEN [i \in 1..Len(r) |-> IF r[i].version = version
                               THEN [version |-> version, files |-> files] ELSE r[i]]
    ELSE Append(r, [version |-> version, files |-> files])

\* the orders in which data_dir.iterdir() may yield the version directories
DirOrders ==
    {o \in [1..Cardinality(DOMAIN fs) -> DOMAIN fs] :
        \A i, j \in 1..Cardinality(DOMAIN fs) : i # j => o[i] # o[j]}

\* search() reaches iterdir() only through refresh_index (not ready) or with an
\* empty registry; in any other state one order stands for all of them
SearchDirOrders ==
    IF ready /\ Len(registry) > 0 THEN {CHOOSE o \in DirOrders : TRUE} ELSE DirOrders

\* refresh_index: the versions enumerated, the decompiled ones or else the directories
refresh_versions(order) == IF Len(db.decompiled) > 0 THEN db.decompiled ELSE order

\* refresh_index: the loop that registers list_files(version) for each of them
RECURSIVE refresh_registry(_, _)
refresh_registry(r, versions) ==
    IF Len(versions) = 0 THEN r
    ELSE refresh_registry(RegistrySet(r, versions[1], list_files_ret(versions[1], <<>>)),
                          Tail(versions))

refresh_index(order) ==
    /\ order \in DirOrders
    /\ registry' = refresh_registry(registry, refresh_versions(order))
    /\ ready' = TRUE
    /\ last' = [op |-> "refresh_index", versions |-> refresh_versions(order), store_failed |-> FALSE]
    /\ UNCHANGED <<store, hits, misses, cache_connected, hist, now, fs, db, heap, loop, indexer, db_connected>>

\* refresh_index when db.get_decompiled_versions raises (lines 23-26): versions
\* is [] and the directories of the data root are enumerated
refresh_index_store_failed(order) ==
    /\ order \in DirOrders
    /\ registry' = refresh_registry(registry, order)
    /\ ready' = TRUE
    /\ last' = [op |-> "refresh_index", versions |-> order, store_failed |-> TRUE]
    /\ UNCHANGED <<store, hits, misses, cache_connected, hist, now, fs, db, heap, loop, indexer, db_connected>>

\* register_version(version, files): files is None (list_files is used) or a list
register_version(version, files) ==
    /\ registry' = RegistrySet(registry, version,
                               IF IsNone(files) THEN list_files_ret(version, <<>>) ELSE files[1])
    /\ last' = [op |-> "register_version", version |-> version, files |-> files]
    /\ UNCHANGED <<store, hits, misses, cache_connected, hist, now, fs, db, ready, heap, loop, indexer, db_connected>>

\* str.find: the 0-based index of the first occurrence of needle at or after i, or -1
RECURSIVE FindFrom(_, _, _)
FindFrom(hay, needle, i) ==
    IF i + Len(needle) > Len(hay) THEN -1
    ELSE IF SubSeq(hay, i + 1, i + Len(needle)) = needle THEN i
    ELSE FindFrom(hay, needle, i + 1)

Find(hay, needle) == FindFrom(hay, needle, 0)

\* content.count("\n", 0, match_index) + 1; an end past the text is the end of the text
LineNumber(content, match_index) ==
    Cardinality({i \in 1..match_index : i <= Len(content) /\ content[i] = 10}) + 1

\* the context window of _build_snippet
SnippetWindow == 150

IsSpace(c) == c \in {32, 9, 10, 11, 12, 13}

\* str.strip()
RECURSIVE Strip(_)
Strip(s) ==
    IF Len(s) = 0 THEN s
    ELSE IF IsSpace(s[1]) THEN Strip(Tail(s))
    ELSE IF IsSpace(s[Len(s)]) THEN Strip(SubSeq(s, 1, Len(s) - 1))
    ELSE s

\* _build_snippet(content, index, length)
build_snippet(content, index, length) ==
    LET start == IF index - SnippetWindow > 0 THEN index - SnippetWindow ELSE 0
        end == IF index + length + SnippetWindow < Len(content)
               THEN index + length + SnippetWindow ELSE Len(content)
        cut == Strip(SubSeq(content, start + 1, end))
    IN  [i \in 1..Len(cut) |-> IF cut[i] = 10 THEN 32 ELSE cut[i]]

SearchResult(version, file_path, line_number, snippet) ==
    [version |-> version, file_path |-> file_path, class_name |-> None,
     line_number |-> Some(line_number), snippet |-> snippet, score |-> 1]

\* the largest limit a SearchRequest accepts
MaxPageLimit == 500

\* total_matches += 1, for every file that matches
CountStopsWhenFull(total_matches, nresults, limit) ==
    IF nresults >= limit THEN total_matches ELSE total_matches + 1

CountMatch(total_matches, nresults, limit) == total_matches + 1

\* the two tests after the count: "total_matches <= offset: continue" and
\* "len(results) >= limit: continue"; TRUE when the match goes into the page
InPageFromOffset(total_matches, offset, nresults, limit) ==
    ~(total_matches < offset) /\ ~(nresults >= limit)

InPageIgnoresLimit(total_matches, offset, nresults, limit) == ~(total_matches <= offset)

InPage(total_matches, offset, nresults, limit) ==
    ~(total_matches <= offset) /\ ~(nresults >= limit)

\* await file_service.get_file_content(version, file_path), as it acts on the
\* cache carried in st (store, hist, hits, misses)
ScanLoad(st, version, file_path) ==
    [st EXCEPT
       !.store = get_file_content_store(st.store, version, file_path),
       !.hist = get_file_content_hist(st.hist, st.store, version, file_path),
       !.hits = HitsAfter(~IsNone(Lookup(st.store, now, cache_key_file(version, file_path))),
                          st.hits),
       !.misses = MissesAfter(~IsNone(Lookup(st.store, now, cache_key_file(version, file_path))),
                              st.misses)]

\* the rest of the loop body, for a file whose content holds the query at match_index
ScanHit(st, version, file_path, content, match_index, query, limit, offset) ==
    IF ~InPage(CountMatch(st.total, Len(st.results), limit), offset, Len(st.results), limit)
    THEN [st EXCEPT !.total = CountMatch(st.total, Len(st.results), limit)]
    ELSE [st EXCEPT !.total = CountMatch(st.total, Len(st.results), limit),
                    !.results = Append(st.results,
                        SearchResult(version, file_path, LineNumber(content, match_index),
                                     build_snippet(content, match_index, Len(query))))]

\* the rest of the loop body once file_content is known: the two "continue"s for
\* a file that did not load or is empty, and for a file without the query
ScanContent(st, version, file_path, file_content, query, limit, offset) ==
    IF IsNone(file_content) \/ ~StrTruthy(file_content[1].content) THEN st
    ELSE CHOOSE r \in {IF match_index = -1 THEN st
                       ELSE ScanHit(st, version, file_path, file_content[1].content,
                                    match_index, query, limit, offset) :
                       match_index \in {Find(Lower(file_content[1].content), query)}} : TRUE

\* the body of the inner loop of search() for one file of one version; st carries
\* the cache, the registry, total_matches and results
ScanFile(st, version, file_path, query, limit, offset) ==
    CHOOSE r \in {ScanContent(st1, version, file_path, file_content, query, limit, offset) :
                    st1 \in {[ScanLoad(st, version, file_path) EXCEPT
                                 !.loaded = Append(st.loaded, <<version, file_path>>)]},
                    file_content \in {get_file_content_ret(st.store, version, file_path)}} : TRUE

\* the inner loop; each iteration's state is computed once and handed on
RECURSIVE ScanFiles(_, _, _, _, _, _)
ScanFiles(st, version, file_paths, query, limit, offset) ==
    IF Len(file_paths) = 0 THEN st
    ELSE CHOOSE r \in {ScanFiles(st1, version, Tail(file_paths), query, limit, offset) :
                        st1 \in {ScanFile(st, version, file_paths[1], query, limit, offset)}} : TRUE

\* file_paths = self._file_registry.get(version); a version missing from the
\* registry is listed from disk and registered
ScanVersion(st, version, query, limit, offset) ==
    LET known == RegistryGet(st.registry, version)
        file_paths == IF IsNone(known) THEN list_files_ret(version, <<>>) ELSE known[1]
        st1 == IF IsNone(known)
               THEN [st EXCEPT !.registry = RegistrySet(st.registry, version, file_paths),
                               !.scanned = Append(st.scanned, version)]
               ELSE [st EXCEPT !.scanned = Append(st.scanned, version)]
    IN  CHOOSE r \in {ScanFiles(st2, version, fp, query, limit, offset) :
                        st2 \in {st1}, fp \in {file_paths}} : TRUE

\* the outer loop
RECURSIVE ScanVersions(_, _, _, _, _)
ScanVersions(st, versions, query, limit, offset) ==
    IF Len(versions) = 0 THEN st
    ELSE CHOOSE r \in {ScanVersions(st1, Tail(versions), query, limit, offset) :
                        st1 \in {ScanVersion(st, versions[1], query, limit, offset)}} : TRUE

\* a search that would prefer the registry to the request
search_versions_registry_first(r, requested, order) ==
    IF Len(r) > 0 THEN RegistryKeys(r)
    ELSE IF ~IsNone(requested) /\ Len(requested[1]) > 0 THEN requested[1]
    ELSE order

\* the versions search() scans: request.versions or the registry's keys, or else
\* the directories of the data root
search_versions(r, requested, order) ==
    IF ~IsNone(requested) /\ Len(requested[1]) > 0 THEN requested[1]
    ELSE IF Len(r) > 0 THEN RegistryKeys(r)
    ELSE order

\* SearchService.search, run from the current state; order is what iterdir() yields
search_from(r0, requested, query, limit, offset, order) ==
    ScanVersions([store |-> store, hist |-> hist, hits |-> hits, misses |-> misses,
                  registry |-> r0, total |-> 0, results |-> <<>>, scanned |-> <<>>,
                  loaded |-> <<>>],
                 search_versions(r0, requested, order), Lower(query), limit, offset)

search_run(requested, query, limit, offset, order) ==
    CHOOSE r \in {search_from(r0, requested, query, limit, offset, order) :
                    r0 \in {IF ready THEN registry
                            ELSE refresh_registry(registry, refresh_versions(order))}} : TRUE

\* the search this call follows, with nothing but time passing in between
PreviousSearch ==
    IF last.op = "search" THEN Some(last)
    ELSE IF last.op = "tick" THEN last.before ELSE None

\* whether this call is the next page of that search: the same request with
\* the offset advanced by limit
NextPage(requested, query, limit, offset) ==
    /\ ~IsNone(PreviousSearch)
    /\ PreviousSearch[1].query = query
    /\ PreviousSearch[1].versions = requested
    /\ PreviousSearch[1].limit = limit
    /\ PreviousSearch[1].offset + limit = offset

search(requested, query, limit, offset, order) ==
    /\ CanSearch
    /\ order \in SearchDirOrders
    /\ \E st \in {search_run(requested, query, limit, offset, order)} :
           /\ store' = st.store
           /\ hist' = st.hist
           /\ hits' = st.hits
           /\ misses' = st.misses
           /\ registry' = st.registry
           /\ last' = [op |-> "search", query |-> query, versions |-> requested,
                       limit |-> limit, offset |-> offset,
                       total |-> st.total, results |-> st.results, raised |-> FALSE,
                       refreshed |-> ~ready, scanned |-> st.scanned, loaded |-> st.loaded,
                       first |-> IF NextPage(requested, query, limit, offset)
                                 THEN PreviousSearch[1].first ELSE offset,
                       pages |-> IF NextPage(requested, query, limit, offset)
                                 THEN PreviousSearch[1].pages \o st.results ELSE st.results]
    /\ ready' = TRUE
    /\ UNCHANGED <<cache_connected, now, fs, db, heap, loop, indexer, db_connected>>

----------------------------------------------------------------------------
(* Requests as tasks of the event loop.  get_file_content, get_file_tree   *)
(* and search are taken from one await that has to wait to the next: the   *)
(* read of a file (aiofiles, a worker thread) and each statement sent to   *)
(* the database (aiosqlite, a worker thread).  Awaiting a method of the    *)
(* cache or list_files never waits.  At such an await the task leaves the  *)
(* loop to the other tasks, and it is there that a request its caller has  *)
(* abandoned is cancelled: CancelledError is raised at the await and is    *)
(* not an Exception, so no except clause of the service catches it.        *)

\* the coroutine waits at an await
Suspend(id, rec) == [running |-> 0, tasks |-> [loop.tasks EXCEPT ![id] = rec]]

\* the pcs at which a coroutine waits
Awaits == {"gfc_33", "gft_52", "gft_53", "gft_65", "gft_66", "ri_24", "s_73"}

CanLookupTask == hits + misses < MaxTaskLookups

\* a get_file_content that would put an empty entry in the cache before it reads
StoreWhileReadingPartial(s, version, path) ==
    SetEntry(s, now, cache_key_file(version, path), StrVal(<<>>), Some(cache_ttl))

\* the cache while get_file_content waits for the read: nothing is stored yet
StoreWhileReading(s, version, path) == s

\* the cache after the lookup of get_file_content (lines 19-30)
LookupStore(s, version, path) ==
    IF get_file_content_opens(s, version, path)
    THEN StoreWhileReading(PurgeExpired(s, now), version, path)
    ELSE PurgeExpired(s, now)

\* the cache once the read has returned (lines 34-38): set_str, unless open or read raised
ReadStore(s, version, path) ==
    IF CanRead(get_file_path(version, path))
    THEN SetEntry(s, now, cache_key_file(version, path),
                  StrVal(PathContent(get_file_path(version, path))), Some(cache_ttl))
    ELSE s

ReadHist(h, version, path) ==
    IF CanRead(get_file_path(version, path))
    THEN HistSet(h, now, cache_key_file(version, path),
                 StrVal(PathContent(get_file_path(version, path))), Some(cache_ttl))
    ELSE h

\* what get_file_content returns once the read has returned (lines 36-44)
ReadRet(version, path) ==
    IF CanRead(get_file_path(version, path))
    THEN Some(FileContent(path, PathContent(get_file_path(version, path)),
                          StatSize(get_file_path(version, path)), version))
    ELSE None

\* get_file_content, lines 19-33: the cache lookup; a hit or a missing file
\* returns, anything else waits for the file to be opened and read
co_get_file_content(id, version, path) ==
    /\ CanRun(id)
    /\ CanLookupTask
    /\ loop.tasks[id].pc = "idle"
    /\ store' = LookupStore(store, version, path)
    /\ hits' = HitsAfter(~IsNone(Lookup(store, now, cache_key_file(version, path))), hits)
    /\ misses' = MissesAfter(~IsNone(Lookup(store, now, cache_key_file(version, path))), misses)
    /\ loop' = IF get_file_content_opens(store, version, path)
               THEN Suspend(id, [pc |-> "gfc_33", version |-> version, path |-> path])
               ELSE Finish(id)
    /\ last' = [op |-> "co_step", task |-> id]
    /\ UNCHANGED <<cache_connected, hist, now, fs, db, registry, ready, heap, indexer, db_connected>>

\* get_file_content, lines 34-44: the read has returned
co_get_file_content_read(id) ==
    LET t == loop.tasks[id]
    IN  /\ CanRun(id)
        /\ t.pc = "gfc_33"
        /\ store' = ReadStore(store, t.version, t.path)
        /\ hist' = ReadHist(hist, t.version, t.path)
        /\ loop' = Finish(id)
        /\ last' = [op |-> "co_get_file_content", task |-> id, ret |-> ReadRet(t.version, t.path)]
        /\ UNCHANGED <<hits, misses, cache_connected, now, fs, db, registry, ready, heap, indexer, db_connected>>

\* get_file_tree, lines 47-52: the cache lookup; a hit returns the cached
\* tree, a miss waits for the database
co_get_file_tree(id, version) ==
    /\ CanRun(id)
    /\ CanLookupTask
    /\ loop.tasks[id].pc = "idle"
    /\ store' = PurgeExpired(store, now)
    /\ hits' = HitsAfter(~IsNone(Lookup(store, now, cache_key_tree(version))), hits)
    /\ misses' = MissesAfter(~IsNone(Lookup(store, now, cache_key_tree(version))), misses)
    /\ loop' = IF IsNone(tree_cached(version))
               THEN Suspend(id, [pc |-> "gft_52", version |-> version])
               ELSE Finish(id)
    /\ last' = IF IsNone(tree_cached(version))
               THEN [op |-> "co_step", task |-> id]
               ELSE [op |-> "co_get_file_tree", task |-> id, version |-> version,
                     raised |-> FALSE, ret |-> Some(tree_cached(version)[1].json[1]),
                     tier |-> "memory"]
    /\ UNCHANGED <<cache_connected, hist, now, fs, db, registry, ready, heap, indexer, db_connected>>

\* db.get_file_tree, lines 203-212 of database.py: _fetchone runs the SELECT
\* on a connection of its own while the task waits; the task will go on with
\* the document the store held at that moment
co_fetchone(id) ==
    LET t == loop.tasks[id]
    IN  /\ t.pc = "gft_52"
        /\ loop' = [loop EXCEPT !.tasks[id] =
                       [pc |-> "gft_53", version |-> t.version,
                        db_cached |-> db_get_file_tree(db, t.version)]]
        /\ last' = [op |-> "co_step", task |-> id]
        /\ UNCHANGED <<store, hits, misses, cache_connected, hist, now, fs, db, registry, ready, heap, indexer, db_connected>>

\* get_file_tree, lines 52-65: the database has answered; its tree is cached and
\* returned, or the tree is built and cached and the task waits for the
\* database to persist it
co_get_file_tree_db(id) ==
    LET t == loop.tasks[id]
        db_cached == t.db_cached
        walks == IsNone(db_cached) /\ PathExists([version |-> t.version, comps |-> <<>>])
        tree == IF walks THEN build_tree(t.version, <<>>) ELSE db_cached[1]
    IN  /\ CanRun(id)
        /\ t.pc = "gft_53"
        /\ IF IsNone(db_cached) /\ ~walks
           THEN UNCHANGED <<store, hist>>
           ELSE /\ store' = SetEntry(store, now, cache_key_tree(t.version), JsonVal(tree), tree_ttl)
                /\ hist' = HistSet(hist, now, cache_key_tree(t.version), JsonVal(tree), tree_ttl)
        /\ loop' = IF walks THEN Suspend(id, [pc |-> "gft_65", version |-> t.version, tree |-> tree])
                   ELSE Finish(id)
        /\ last' = IF walks
                   THEN [op |-> "co_step", task |-> id]
                   ELSE [op |-> "co_get_file_tree", task |-> id, version |-> t.version,
                         raised |-> FALSE, ret |-> db_cached, tier |-> "database"]
        /\ UNCHANGED <<hits, misses, cache_connected, now, fs, db, registry, ready, heap, indexer, db_connected>>

\* db.cache_file_tree, lines 214-224 of database.py: execute runs the INSERT
\* and commits it on a connection of its own while the task waits, or the
\* INSERT raises on the foreign key
co_execute(id) ==
    LET t == loop.tasks[id]
    IN  /\ t.pc = "gft_65"
        /\ db' = IF ForeignKeyOk(db, t.version) THEN db_cache_file_tree(db, t.version, t.tree) ELSE db
        /\ loop' = [loop EXCEPT !.tasks[id] =
                       [pc |-> "gft_66", version |-> t.version, tree |-> t.tree,
                        raised |-> ~ForeignKeyOk(db, t.version)]]
        /\ last' = [op |-> "co_step", task |-> id]
        /\ UNCHANGED <<store, hits, misses, cache_connected, hist, now, fs, registry, ready, heap, indexer, db_connected>>

\* get_file_tree, lines 65-67: the insert has returned and the tree is
\* returned, or the insert has raised
co_get_file_tree_persist(id) ==
    LET t == loop.tasks[id]
    IN  /\ CanRun(id)
        /\ t.pc = "gft_66"
        /\ loop' = Finish(id)
        /\ last' = [op |-> "co_get_file_tree", task |-> id, version |-> t.version,
                    raised |-> t.raised, ret |-> IF t.raised THEN None ELSE Some(t.tree),
                    tier |-> "disk"]
        /\ UNCHANGED <<store, hits, misses, cache_connected, hist, now, fs, db, registry, ready, heap, indexer, db_connected>>

\* the locals of search() at the head of its outer loop (lines 57-66)
SearchLocals(r, requested, query, limit, offset, order) ==
    [pc |-> "s_66", query |-> Lower(query), limit |-> limit, offset |-> offset,
     versions |-> search_versions(r, requested, order), files |-> None, fi |-> 1,
     total |-> 0, results |-> <<>>]

\* search, lines 52-55: a service that is not ready waits for the database in refresh_index
co_search(id, requested, query, limit, offset, order) ==
    /\ CanRun(id)
    /\ loop.tasks[id].pc = "idle"
    /\ order \in DirOrders
    /\ loop' = IF ready
               THEN Resume(id, SearchLocals(registry, requested, query, limit, offset, order))
               ELSE Suspend(id, [pc |-> "ri_24", requested |-> requested, query |-> query,
                                 limit |-> limit, offset |-> offset])
    /\ last' = [op |-> "co_step", task |-> id]
    /\ UNCHANGED <<store, hits, misses, cache_connected, hist, now, fs, db, registry, ready, heap, indexer, db_connected>>

\* refresh_index, lines 24-34, and search, lines 57-64: the versions are known,
\* each one is listed and registered, and the service is ready
co_search_refresh(id, order) ==
    LET t == loop.tasks[id]
    IN  /\ CanRun(id)
        /\ t.pc = "ri_24"
        /\ order \in DirOrders
        /\ registry' = refresh_registry(registry, refresh_versions(order))
        /\ ready' = TRUE
        /\ loop' = Resume(id, SearchLocals(refresh_registry(registry, refresh_versions(order)),
                                           t.requested, t.query, t.limit, t.offset, order))
        /\ last' = [op |-> "co_step", task |-> id]
        /\ UNCHANGED <<store, hits, misses, cache_connected, hist, now, fs, db, heap, indexer, db_connected>>

\* search, lines 66-100, up to the next await that waits: the end of the
\* versions (return), the paths of the next version (registered when the
\* registry does not have them), or the next file, whose content comes from
\* the cache at once or has to be read
co_search_scan(id) ==
    LET t == loop.tasks[id]
        version == t.versions[1]
        known == RegistryGet(registry, version)
        file_paths == IF IsNone(known) THEN list_files_ret(version, <<>>) ELSE known[1]
        file_path == t.files[1][t.fi]
        st == [total |-> t.total, results |-> t.results]
    IN  /\ CanRun(id)
        /\ t.pc = "s_66"
        /\ IF Len(t.versions) = 0
           THEN /\ loop' = Finish(id)
                /\ last' = [op |-> "co_search", task |-> id, total |-> t.total, results |-> t.results]
                /\ UNCHANGED <<store, hits, misses, registry>>
           ELSE IF IsNone(t.files)
           THEN /\ registry' = IF IsNone(known) THEN RegistrySet(registry, version, file_paths)
                               ELSE registry
                /\ loop' = Resume(id, [t EXCEPT !.files = Some(file_paths), !.fi = 1])
                /\ last' = [op |-> "co_step", task |-> id]
                /\ UNCHANGED <<store, hits, misses>>
           ELSE IF t.fi > Len(t.files[1])
           THEN /\ loop' = Resume(id, [t EXCEPT !.versions = Tail(t.versions), !.files = None])
                /\ last' = [op |-> "co_step", task |-> id]
                /\ UNCHANGED <<store, hits, misses, registry>>
           ELSE /\ CanLookupTask
                /\ store' = LookupStore(store, version, file_path)
                /\ hits' = HitsAfter(~IsNone(Lookup(store, now, cache_key_file(version, file_path))), hits)
                /\ misses' = MissesAfter(~IsNone(Lookup(store, now, cache_key_file(version, file_path))), misses)
                /\ IF get_file_content_opens(store, version, file_path)
                   THEN loop' = Suspend(id, [t EXCEPT !.pc = "s_73"])
                   ELSE \E st1 \in {ScanContent(st, version, file_path,
                                                get_file_content_ret(store, version, file_path),
                                                t.query, t.limit, t.offset)} :
                          loop' = Resume(id, [t EXCEPT !.fi = t.fi + 1, !.total = st1.total,
                                                       !.results = st1.results])
                /\ last' = [op |-> "co_step", task |-> id]
                /\ UNCHANGED registry
        /\ UNCHANGED <<cache_connected, hist, now, fs, db, ready, heap, indexer, db_connected>>

\* search, line 73 onwards: the read of get_file_content has returned
co_search_read(id) ==
    LET t == loop.tasks[id]
        version == t.versions[1]
        file_path == t.files[1][t.fi]
        st == [total |-> t.total, results |-> t.results]
    IN  /\ CanRun(id)
        /\ t.pc = "s_73"
        /\ store' = ReadStore(store, version, file_path)
        /\ hist' = ReadHist(hist, version, file_path)
        /\ \E st1 \in {ScanContent(st, version, file_path, ReadRet(version, file_path),
                                   t.query, t.limit, t.offset)} :
              loop' = Resume(id, [t EXCEPT !.pc = "s_66", !.fi = t.fi + 1, !.total = st1.total,
                                           !.results = st1.results])
        /\ last' = [op |-> "co_step", task |-> id]
        /\ UNCHANGED <<hits, misses, cache_connected, now, fs, db, registry, ready, heap, indexer, db_connected>>

\* the caller abandons the request: the task is cancelled at the await where it
\* waits; an insert it was waiting for has been committed or is rolled back
cancel(id, committed) ==
    LET t == loop.tasks[id]
    IN  /\ CanRun(id)
        /\ t.pc \in Awaits
        /\ committed => (t.pc = "gft_65" /\ ForeignKeyOk(db, t.version))
        /\ db' = IF committed THEN db_cache_file_tree(db, t.version, t.tree) ELSE db
        /\ loop' = Finish(id)
        /\ last' = [op |-> "cancel", task |-> id, pc |-> t.pc, committed |-> committed]
        /\ UNCHANGED <<store, hits, misses, cache_connected, hist, now, fs, registry, ready, heap, indexer, db_connected>>

----------------------------------------------------------------------------
(* preprocessing/indexer.py: _gather_file_metadata creates one task per    *)
(* file found by rglob("*.java"); each task runs process(path) under       *)
(* asyncio.Semaphore(settings.threads) and waits, inside it, for the lines *)
(* of the file to be counted; the results are collected as the tasks       *)
(* finish.  A task is "created" until it has acquired the semaphore,       *)
(* "opening" and then "counting" while it waits inside it, then "returned" *)
(* or "raised", and "collected" once the loop over as_completed has        *)
(* awaited it.                                                             *)

NotIndexing == [gathering |-> FALSE]

\* list(src_dir.rglob("*.java"))
java_files(version) ==
    IF SrcKind(version) # "dir" THEN {}
    ELSE {c \in DOMAIN fs[version].nodes : Reachable(version, <<>>, c) /\ MatchesJava(c[Len(c)])}

\* _count_lines: the lines "async for _ in f" yields (the texts hold no carriage return)
LineCount(content) ==
    Cardinality({i \in 1..Len(content) : content[i] = 10})
      + (IF Len(content) > 0 /\ content[Len(content)] # 10 THEN 1 ELSE 0)

\* str.replace(sub, "")
RECURSIVE RemoveAll(_, _)
RemoveAll(s, sub) ==
    IF Len(s) < Len(sub) THEN s
    ELSE IF SubSeq(s, 1, Len(sub)) = sub THEN RemoveAll(SubSeq(s, Len(sub) + 1, Len(s)), sub)
    ELSE <<s[1]>> \o RemoveAll(Tail(s), sub)

\* ".".join(parts)
RECURSIVE JoinDots(_)
JoinDots(parts) ==
    IF Len(parts) = 0 THEN <<>>
    ELSE IF Len(parts) = 1 THEN parts[1]
    ELSE parts[1] \o <<46>> \o JoinDots(Tail(parts))

\* the dict process(path) returns (lines 43-53)
FileMetadata(parts, size, line_count) ==
    [path |-> JoinPath(parts), size_bytes |-> size, line_count |-> line_count,
     class_name |-> Some(RemoveAll(parts[Len(parts)], JavaSuffix)),
     package |-> IF Len(parts) > 1 THEN Some(JoinDots(SubSeq(parts, 1, Len(parts) - 1))) ELSE None]

\* a semaphore that would let every task in
CanAcquireAlways(value) == TRUE

\* Semaphore.acquire() goes on without waiting while the value is positive
CanAcquire(value) == value > 0

\* _gather_file_metadata, lines 28-55: the files are listed; with none of them
\* [] is returned, otherwise the semaphore and one task per file are created
gather_file_metadata(version) ==
    /\ ~indexer.gathering
    /\ IF java_files(version) = {}
       THEN /\ indexer' = NotIndexing
            /\ last' = [op |-> "gather", version |-> version, ret |-> <<>>, files |-> {}, failed |-> {}]
       ELSE /\ indexer' = [gathering |-> TRUE, version |-> version,
                           tasks |-> [c \in java_files(version) |-> [pc |-> "created"]],
                           semaphore |-> threads, metadata |-> <<>>, completed |-> 0]
            /\ last' = [op |-> "gather_start", version |-> version]
    /\ UNCHANGED <<store, hits, misses, cache_connected, hist, now, fs, db, registry, ready, heap, loop, db_connected>>

\* process(path), lines 38-41: the semaphore is acquired and the file is
\* stat()ed; a file that is gone raises, which releases the semaphore
process(c) ==
    LET p == [version |-> indexer.version, comps |-> c]
    IN  /\ indexer.gathering
        /\ c \in DOMAIN indexer.tasks
        /\ indexer.tasks[c].pc = "created"
        /\ CanAcquire(indexer.semaphore)
        /\ indexer' = IF PathExists(p)
                      THEN [indexer EXCEPT !.semaphore = @ - 1,
                                           !.tasks[c] = [pc |-> "opening", size |-> StatSize(p)]]
                      ELSE [indexer EXCEPT !.tasks[c] = [pc |-> "raised"]]
        /\ last' = [op |-> "process", path |-> c]
        /\ UNCHANGED <<store, hits, misses, cache_connected, hist, now, fs, db, registry, ready, heap, loop, db_connected>>

\* _count_lines, line 22: aiofiles opens the file, which holds its text from
\* then on, or the open fails, which releases the semaphore
process_open(c) ==
    LET p == [version |-> indexer.version, comps |-> c]
        t == indexer.tasks[c]
    IN  /\ indexer.gathering
        /\ c \in DOMAIN indexer.tasks
        /\ t.pc = "opening"
        /\ indexer' = IF CanRead(p)
                      THEN [indexer EXCEPT !.tasks[c] = [pc |-> "counting", size |-> t.size,
                                                         content |-> PathContent(p)]]
                      ELSE [indexer EXCEPT !.semaphore = @ + 1, !.tasks[c] = [pc |-> "raised"]]
        /\ last' = [op |-> "process", path |-> c]
        /\ UNCHANGED <<store, hits, misses, cache_connected, hist, now, fs, db, registry, ready, heap, loop, db_connected>>

\* process(path), lines 41-53: the lines have been counted, the dict is
\* returned and the semaphore is released
process_counted(c) ==
    LET t == indexer.tasks[c]
    IN  /\ indexer.gathering
        /\ c \in DOMAIN indexer.tasks
        /\ t.pc = "counting"
        /\ indexer' = [indexer EXCEPT !.semaphore = @ + 1,
                          !.tasks[c] = [pc |-> "returned",
                                        result |-> FileMetadata(c, t.size, LineCount(t.content))]]
        /\ last' = [op |-> "process", path |-> c]
        /\ UNCHANGED <<store, hits, misses, cache_connected, hist, now, fs, db, registry, ready, heap, loop, db_connected>>

\* the loop over asyncio.as_completed(tasks), lines 57-66: the result of a
\* finished task is appended, its exception is printed
collect(c) ==
    LET t == indexer.tasks[c]
    IN  /\ indexer.gathering
        /\ c \in DOMAIN indexer.tasks
        /\ t.pc \in {"returned", "raised"}
        /\ indexer' = [indexer EXCEPT
                          !.metadata = IF t.pc = "returned" THEN Append(@, t.result) ELSE @,
                          !.completed = @ + 1,
                          !.tasks[c] = [pc |-> "collected", failed |-> t.pc = "raised"]]
        /\ last' = [op |-> "collect", path |-> c]
        /\ UNCHANGED <<store, hits, misses, cache_connected, hist, now, fs, db, registry, ready, heap, loop, db_connected>>

\* line 68: return metadata, once every task has been awaited
gather_return ==
    /\ indexer.gathering
    /\ \A c \in DOMAIN indexer.tasks : indexer.tasks[c].pc = "collected"
    /\ indexer' = NotIndexing
    /\ last' = [op |-> "gather", version |-> indexer.version, ret |-> indexer.metadata,
                files |-> DOMAIN indexer.tasks,
                failed |-> {c \in DOMAIN indexer.tasks : indexer.tasks[c].failed}]
    /\ UNCHANGED <<store, hits, misses, cache_connected, hist, now, fs, db, registry, ready, heap, loop, db_connected>>

\* what _gather_file_metadata returns when it is left to finish: the metadata
\* of the files that could be opened, in the order their tasks completed
GatheredMetadata(version, order) ==
    [i \in 1..Len(order) |->
        FileMetadata(order[i], StatSize([version |-> version, comps |-> order[i]]),
                     LineCount(PathContent([version |-> version, comps |-> order[i]])))]

CompletionOrders(version) ==
    ListsOf({c \in java_files(version) : CanRead([version |-> version, comps |-> c])})

\* index_version, lines 125-126: index_version_files gathers the metadata and
\* hands it to add_files_bulk, which returns at once when there is none and
\* raises when the foreign key fails; nothing catches the exception
index_version(version, order) ==
    LET metadata == GatheredMetadata(version, order)
        raises == Len(metadata) > 0 /\ ~BulkForeignKeyOk(db, version)
    IN  /\ indexer = NotIndexing
        /\ order \in CompletionOrders(version)
        /\ db' = IF Len(metadata) > 0 /\ ~raises THEN db_add_files_bulk(db, version, metadata) ELSE db
        /\ indexer' = IF raises THEN NotIndexing
                      ELSE [gathering |-> FALSE, pc |-> "iv_128", version |-> version,
                            known |-> version \in db.versions, metadata |-> metadata,
                            steps |-> <<"add_files_bulk">>]
        /\ last' = IF raises
                   THEN [op |-> "index_version", version |-> version, raised |-> TRUE,
                         known |-> version \in db.versions, files |-> Len(metadata),
                         steps |-> <<"add_files_bulk">>]
                   ELSE [op |-> "index_step", version |-> version]
        /\ UNCHANGED <<store, hits, misses, cache_connected, hist, now, fs, registry, ready, heap, loop, db_connected>>

\* index_version, line 128: index_version_search registers the sorted paths
index_version_search ==
    /\ ~indexer.gathering
    /\ indexer # NotIndexing
    /\ indexer.pc = "iv_128"
    /\ registry' = RegistrySet(registry, indexer.version,
                               SortStrs({indexer.metadata[i].path : i \in 1..Len(indexer.metadata)}))
    /\ indexer' = [indexer EXCEPT !.pc = "iv_132", !.steps = Append(@, "register_version")]
    /\ last' = [op |-> "index_step", version |-> indexer.version]
    /\ UNCHANGED <<store, hits, misses, cache_connected, hist, now, fs, db, ready, heap, loop, db_connected>>

\* index_version, lines 130-134: update_version_metadata upserts the versions
\* row with decompiled=True, and index_version returns
update_version_metadata(newest) ==
    /\ ~indexer.gathering
    /\ indexer # NotIndexing
    /\ indexer.pc = "iv_132"
    /\ db' = db_upsert_version(db, indexer.version, newest)
    /\ indexer' = NotIndexing
    /\ last' = [op |-> "index_version", version |-> indexer.version, raised |-> FALSE,
                known |-> indexer.known, files |-> Len(indexer.metadata),
                steps |-> Append(indexer.steps, "upsert_version")]
    /\ UNCHANGED <<store, hits, misses, cache_connected, hist, now, fs, registry, ready, heap, loop, db_connected>>

----------------------------------------------------------------------------
(* app/main.py: the /health endpoint, and the flag of DatabaseService it   *)
(* reads.                                                                  *)

\* DatabaseService.connect, when the directory and the PRAGMAs succeed
db_connect ==
    /\ db_connected' = TRUE
    /\ last' = [op |-> "db_connect"]
    /\ UNCHANGED <<store, hits, misses, cache_connected, hist, now, fs, db, registry, ready, heap, loop, indexer>>

\* DatabaseService.disconnect
db_disconnect ==
    /\ db_connected' = FALSE
    /\ last' = [op |-> "db_disconnect"]
    /\ UNCHANGED <<store, hits, misses, cache_connected, hist, now, fs, db, registry, ready, heap, loop, indexer>>

\* a status that one ready service would make healthy
health_status_any(d, c, s) == IF d \/ c \/ s THEN "healthy" ELSE "degraded"

\* "healthy" if all([db_connected, cache_ready, search_ready]) else "degraded"
health_status(d, c, s) == IF d /\ c /\ s THEN "healthy" ELSE "degraded"

\* 200 if health_status.status == "healthy" else 503
health_status_code(status) == IF status = "healthy" THEN 200 ELSE 503

\* GET /health; count_raises tells whether db.get_version_count raises
health(count_raises) ==
    /\ last' = [op |-> "health",
                status |-> health_status(db_connected, is_connected, ready),
                status_code |-> health_status_code(health_status(db_connected, is_connected, ready)),
                version_count |-> IF db_connected /\ ~count_raises THEN Len(db.decompiled) ELSE 0,
                cache_hit_rate |-> IF is_connected THEN Some(HitRate(hits, misses)) ELSE None,
                db_connected |-> db_connected, cache_ready |-> is_connected,
                search_ready |-> ready]
    /\ UNCHANGED <<store, hits, misses, cache_connected, hist, now, fs, db, registry, ready, heap, loop, indexer, db_connected>>

----------------------------------------------------------------------------
(* The environment: the corpus changes under the running service.          *)

\* a file of the corpus is removed
DeleteFile(version, comps) ==
    /\ PathIsFile([version |-> version, comps |-> comps])
    /\ comps # <<>>
    /\ fs' = [fs EXCEPT ![version].nodes = Without(@, {comps})]
    /\ last' = [op |-> "fs_delete"]
    /\ UNCHANGED <<store, hits, misses, cache_connected, hist, now, db, registry, ready, heap, loop, indexer, db_connected>>

\* a file of the corpus is rewritten with other content
WriteFile(version, comps, content) ==
    /\ PathIsFile([version |-> version, comps |-> comps])
    /\ comps # <<>>
    /\ fs[version].nodes[comps].content # content
    /\ fs' = [fs EXCEPT ![version].nodes[comps].content = content]
    /\ last' = [op |-> "fs_write"]
    /\ UNCHANGED <<store, hits, misses, cache_connected, hist, now, db, registry, ready, heap, loop, indexer, db_connected>>

\* the version directories appear under the data root
Materialize(corpus) ==
    /\ fs = <<>>
    /\ fs' = corpus
    /\ last' = [op |-> "fs_materialize"]
    /\ UNCHANGED <<store, hits, misses, cache_connected, hist, now, db, registry, ready, heap, loop, indexer, db_connected>>

\* a file is created in the corpus
CreateFile(version, comps, content) ==
    /\ SrcKind(version) = "dir"
    /\ comps \notin DOMAIN fs[version].nodes
    /\ fs' = [fs EXCEPT ![version].nodes = @ @@ (comps :> FileOnDisk(content))]
    /\ last' = [op |-> "fs_create"]
    /\ UNCHANGED <<store, hits, misses, cache_connected, hist, now, db, registry, ready, heap, loop, indexer, db_connected>>

\* the permissions of a file of the corpus are changed
Chmod(version, comps, readable) ==
    /\ PathIsFile([version |-> version, comps |-> comps])
    /\ comps # <<>>
    /\ fs[version].nodes[comps].readable # readable
    /\ fs' = [fs EXCEPT ![version].nodes[comps].readable = readable]
    /\ last' = [op |-> "fs_chmod"]
    /\ UNCHANGED <<store, hits, misses, cache_connected, hist, now, db, registry, ready, heap, loop, indexer, db_connected>>

----------------------------------------------------------------------------
(* The corpora, contents and requests the operations are exercised with.   *)

\* version ids "1" and "2"
V1 == <<49>>

V2 == <<50>>

\* the names "a", "F.java" and "G.java"
DirA == <<97>>

FJava == <<70, 46, 106, 97, 118, 97>>

GJava == <<71, 46, 106, 97, 118, 97>>

\* file contents: "", "Hi", "yo" and "x\nhi hi"
Empty == <<>>

TextHi == <<72, 105>>

TextYo == <<121, 111>>

TextTwoLines == <<120, 10, 104, 105, 32, 104, 105>>

\* version 1 holds a/F.java ("Hi") and the empty file G.java; version 2 has no src
CorpusA ==
    (V1 :> [src |-> "dir",
            nodes |-> (<<DirA>> :> DirOnDisk) @@ (<<DirA, FJava>> :> FileOnDisk(TextHi))
                      @@ (<<GJava>> :> FileOnDisk(Empty))])
    @@ (V2 :> [src |-> "none", nodes |-> <<>>])

EmptyDb == [versions |-> {}, decompiled |-> <<>>, file_tree_cache |-> <<>>, files |-> {}]

\* the relative paths requested: "a/F.java", "G.java", ""
PathArgs == {DirA \o <<47>> \o FJava, GJava, <<>>}

InitEnv(corpora, dbs) ==
    /\ store = <<>>
    /\ hits = 0
    /\ misses = 0
    /\ cache_connected = TRUE
    /\ hist = <<>>
    /\ now = 0
    /\ fs \in corpora
    /\ db \in dbs
    /\ registry = <<>>
    /\ ready = FALSE
    /\ heap = <<>>
    /\ loop = NoTasks
    /\ indexer = NotIndexing
    /\ db_connected = TRUE
    /\ last = [op |-> "init"]

----------------------------------------------------------------------------
(* File contents: get_file_content and list_files over a changing corpus.  *)

InitContent == InitEnv({CorpusA}, {EmptyDb})

NextContent ==
    \/ \E v \in {V1, V2}, p \in PathArgs : get_file_content(v, p)
    \/ \E v \in {V1, V2} : list_files(v, <<>>)
    \/ \E c \in {<<DirA, FJava>>, <<GJava>>} : DeleteFile(V1, c)
    \/ \E c \in {<<DirA, FJava>>, <<GJava>>}, t \in {Empty, TextHi, TextYo} : WriteFile(V1, c, t)
    \/ TickSecond
    \/ TickTtl

SpecContent == InitContent /\ [][NextContent]_vars

----------------------------------------------------------------------------
(* File contents that cannot be had: missing and unreadable files, the     *)
(* source root itself, a directory, a version without a source root.       *)

\* version 1 holds a/F.java ("Hi") and G.java ("Hi", not readable); version 2 has no src
CorpusU ==
    (V1 :> [src |-> "dir",
            nodes |-> (<<DirA>> :> DirOnDisk) @@ (<<DirA, FJava>> :> FileOnDisk(TextHi))
                      @@ (<<GJava>> :> [FileOnDisk(TextHi) EXCEPT !.readable = FALSE])])
    @@ (V2 :> [src |-> "none", nodes |-> <<>>])

\* the relative paths requested: "a/F.java", "G.java", "" and "a"
AbsentPathArgs == {DirA \o <<47>> \o FJava, GJava, <<>>, DirA}

NextAbsent ==
    \/ \E v \in {V1, V2}, p \in AbsentPathArgs : get_file_content(v, p)
    \/ DeleteFile(V1, <<DirA, FJava>>)
    \/ \E r \in BOOLEAN : Chmod(V1, <<GJava>>, r)
    \/ TickPastTtl

SpecAbsent == InitEnv({CorpusU}, {EmptyDb}) /\ [][NextAbsent]_vars

----------------------------------------------------------------------------
(* File trees: get_file_tree over the cache, the durable store and disk.   *)

\* a tree persisted earlier: the bare root
BareTree == FileNode(SrcName, <<46>>, "directory", None, Some(<<>>))

\* the durable store: no row; a versions row; a row with a corrupt tree; a row with a tree
TreeDbs ==
    { EmptyDb,
      [versions |-> {V1}, decompiled |-> <<V1>>, file_tree_cache |-> <<>>, files |-> {}],
      [versions |-> {V1}, decompiled |-> <<V1>>, file_tree_cache |-> (V1 :> CorruptText), files |-> {}],
      [versions |-> {V1}, decompiled |-> <<V1>>, file_tree_cache |-> (V1 :> json_dumps(BareTree)), files |-> {}] }

InitTree == InitEnv({CorpusA}, TreeDbs)

NextTree ==
    \/ \E v \in {V1, V2} : get_file_tree(v)
    \/ \E c \in {<<DirA, FJava>>, <<GJava>>} : DeleteFile(V1, c)
    \/ \E c \in {<<DirA, FJava>>}, t \in {Empty, TextHi} : WriteFile(V1, c, t)
    \/ TickSecond
    \/ TickTtl

SpecTree == InitTree /\ [][NextTree]_vars

----------------------------------------------------------------------------
(* Tree walks: get_file_tree over source roots with several directories    *)
(* and files at one level, a directory that cannot be listed, and a source *)
(* root that is a regular file.                                            *)

\* the name "b"
DirB == <<98>>

\* version 1 holds the directories a (with F.java) and b (not listable) and the
\* files F.java and G.java; src of version 2 is a regular file
CorpusT ==
    (V1 :> [src |-> "dir",
            nodes |-> (<<DirB>> :> [DirOnDisk EXCEPT !.readable = FALSE]) @@ (<<DirA>> :> DirOnDisk)
                      @@ (<<DirA, FJava>> :> FileOnDisk(TextHi))
                      @@ (<<GJava>> :> FileOnDisk(Empty)) @@ (<<FJava>> :> FileOnDisk(TextYo))])
    @@ (V2 :> [src |-> "file", nodes |-> <<>>])

\* the durable store: no versions row, or a row for each version
WalkDbs == {EmptyDb, [versions |-> {V1, V2}, decompiled |-> <<V2, V1>>, file_tree_cache |-> <<>>, files |-> {}]}

NextWalk ==
    \/ \E v \in {V1, V2} : get_file_tree(v)
    \/ \E c \in {<<DirA, FJava>>, <<FJava>>, <<GJava>>} : DeleteFile(V1, c)
    \/ \E c \in {<<DirA, GJava>>, <<DirB, FJava>>} : CreateFile(V1, c, TextHi)
    \/ TickPastTtl

SpecWalk == InitEnv({CorpusT}, WalkDbs) /\ [][NextWalk]_vars

----------------------------------------------------------------------------
(* Paged search: search() called page after page over a corpus of two      *)
(* versions with three files that match the query, while time passes.      *)

\* version 1 holds a/F.java ("Hi") and G.java ("x\nhi hi"); version 2 holds
\* F.java ("yo") and G.java ("Hi")
CorpusS ==
    (V1 :> [src |-> "dir",
            nodes |-> (<<DirA>> :> DirOnDisk) @@ (<<DirA, FJava>> :> FileOnDisk(TextHi))
                      @@ (<<GJava>> :> FileOnDisk(TextTwoLines))])
    @@ (V2 :> [src |-> "dir",
               nodes |-> (<<FJava>> :> FileOnDisk(TextYo)) @@ (<<GJava>> :> FileOnDisk(TextHi))])

\* the durable store: nothing indexed, or both versions indexed (2 released after 1)
SearchDbs ==
    { EmptyDb,
      [versions |-> {V1, V2}, decompiled |-> <<V2, V1>>, file_tree_cache |-> <<>>, files |-> {}] }

\* the query "HI"
QueryHi == <<72, 73>>

\* request.versions: absent, or both versions with version 1 first
VersionArgs == {None, Some(<<V1, V2>>)}

InitPaging == InitEnv({CorpusS}, SearchDbs)

NextPaging ==
    \/ \E vs \in VersionArgs, limit \in 1..MaxLimit, offset \in 0..MaxOffset, o \in SearchDirOrders :
          search(vs, QueryHi, limit, offset, o)
    \/ TickPastTtl

SpecPaging == InitPaging /\ [][NextPaging]_vars

----------------------------------------------------------------------------
(* The registry: versions are registered by refresh_index, by              *)
(* register_version and by search itself, over a data root that is empty   *)
(* at first or already holds two versions.                                 *)

\* version 1 holds F.java ("x\nhi hi") and the empty G.java; version 2 holds
\* F.java ("Hi") and G.java ("Hi", not readable)
CorpusR ==
    (V1 :> [src |-> "dir",
            nodes |-> (<<FJava>> :> FileOnDisk(TextTwoLines)) @@ (<<GJava>> :> FileOnDisk(Empty))])
    @@ (V2 :> [src |-> "dir",
               nodes |-> (<<FJava>> :> FileOnDisk(TextHi))
                         @@ (<<GJava>> :> [FileOnDisk(TextHi) EXCEPT !.readable = FALSE])])

\* request.versions: absent, empty, version 1 alone, version 2 then version 1
ScopeArgs == {None, Some(<<>>), Some(<<V1>>), Some(<<V2, V1>>)}

\* the files argument of register_version: absent, or G.java then F.java
FilesArgs == {None, Some(<<GJava, FJava>>)}

NextRegistry ==
    \/ \E vs \in ScopeArgs, o \in SearchDirOrders : search(vs, QueryHi, MaxPageLimit, 0, o)
    \/ \E v \in {V1, V2}, files \in FilesArgs : register_version(v, files)
    \/ \E o \in DirOrders : refresh_index(o)
    \/ Materialize(CorpusR)
    \/ DeleteFile(V2, <<FJava>>)

SpecRegistry == InitEnv({<<>>, CorpusR}, SearchDbs) /\ [][NextRegistry]_vars

----------------------------------------------------------------------------
(* The cache on its own: every operation of CacheService, and the clock.   *)

InitCache ==
    /\ store = <<>>
    /\ hits = 0
    /\ misses = 0
    /\ cache_connected = FALSE
    /\ hist = <<>>
    /\ now = 0
    /\ fs = <<>>
    /\ db = <<>>
    /\ registry = <<>>
    /\ ready = FALSE
    /\ heap = <<>>
    /\ loop = NoTasks
    /\ indexer = NotIndexing
    /\ db_connected = FALSE
    /\ last = [op |-> "init"]

NextCache ==
    \/ connect
    \/ disconnect
    \/ \E k \in CacheKeys : get(k)
    \/ \E k \in CacheKeys : get_json(k)
    \/ \E k \in CacheKeys : get_str(k)
    \/ \E k \in CacheKeys, v \in CacheValues, ttl \in CacheTtls : set(k, v, ttl)
    \/ \E k \in CacheKeys, v \in CacheValues, ttl \in CacheTtls : set_json(k, v, ttl)
    \/ \E k \in CacheKeys, v \in CacheValues, ttl \in CacheTtls : set_str(k, v, ttl)
    \/ \E k \in CacheKeys : delete(k)
    \/ \E p \in CachePatterns : delete_pattern(p)
    \/ \E k \in CacheKeys : exists(k)
    \/ TickSecond

SpecCache == InitCache /\ [][NextCache]_vars

----------------------------------------------------------------------------
(* Structured values: callers build dicts, store them with set_json, read  *)
(* them with get_json and change the dicts they hold.                       *)

NextIsolation ==
    \/ \E d \in Docs : caller_new(d)
    \/ \E o \in 1..MaxObjects, d \in Docs : mutate(o, d)
    \/ \E o \in 1..MaxObjects, ttl \in CacheTtls : set_json_obj(cache_key_tree(<<49>>), o, ttl)
    \/ get_json_obj(cache_key_tree(<<49>>))
    \/ delete(cache_key_tree(<<49>>))
    \/ TickSecond

SpecIsolation == InitCache /\ [][NextIsolation]_vars

----------------------------------------------------------------------------
(* The hit rate: lookups that hit and miss, and the rate read in between.  *)

NextHitRate ==
    \/ \E k \in CacheKeys : counted_get(k)
    \/ \E k \in CacheKeys : set(k, StrVal(<<120>>), None)
    \/ \E k \in CacheKeys : delete(k)
    \/ get_hit_rate

SpecHitRate == InitCache /\ [][NextHitRate]_vars

----------------------------------------------------------------------------
(* Listings: list_files over a source root with a directory that cannot be *)
(* listed, scoped to directories that exist, are missing or are files,     *)
(* while files are created and deleted.                                    *)

\* the name "c" (no such directory)
DirC == <<99>>

\* the directories requested: "", "a", "b", "c" and "G.java"
DirectoryArgs == {<<>>, DirA, DirB, DirC, GJava}

NextListing ==
    \/ \E v \in {V1, V2}, d \in DirectoryArgs : list_files(v, d)
    \/ \E c \in {<<DirA, FJava>>, <<FJava>>, <<GJava>>} : DeleteFile(V1, c)
    \/ \E c \in {<<DirA, GJava>>, <<DirB, FJava>>} : CreateFile(V1, c, TextHi)

SpecListing == InitEnv({CorpusT}, {EmptyDb}) /\ [][NextListing]_vars

----------------------------------------------------------------------------
(* Corrupt persisted trees: the durable store starts with tree documents   *)
(* that do not parse, for a version with a source root and for one without.*)

CorruptDbs ==
    { [versions |-> {V1, V2}, decompiled |-> <<V2, V1>>,
       file_tree_cache |-> (V1 :> CorruptText) @@ (V2 :> CorruptText), files |-> {}],
      [versions |-> {V1, V2}, decompiled |-> <<V2, V1>>,
       file_tree_cache |-> (V1 :> CorruptText) @@ (V2 :> json_dumps(BareTree)), files |-> {}] }

NextCorrupt ==
    \/ \E v \in {V1, V2} : get_file_tree(v)
    \/ \E c \in {<<DirA, FJava>>, <<GJava>>} : DeleteFile(V1, c)
    \/ WriteFile(V1, <<GJava>>, TextHi)
    \/ TickSecond
    \/ TickPastTtl

SpecCorrupt == InitEnv({CorpusA}, CorruptDbs) /\ [][NextCorrupt]_vars

----------------------------------------------------------------------------
(* Repeated reads: get_file_content for two files of one version while one *)
(* of them is rewritten and deleted and cache entries age and expire.      *)

NextReread ==
    \/ \E p \in {DirA \o <<47>> \o FJava, GJava} : get_file_content(V1, p)
    \/ \E t \in {Empty, TextHi, TextYo} : WriteFile(V1, <<DirA, FJava>>, t)
    \/ DeleteFile(V1, <<DirA, FJava>>)
    \/ TickSecond
    \/ TickPastTtl

SpecReread == InitEnv({CorpusA}, {EmptyDb}) /\ [][NextReread]_vars

----------------------------------------------------------------------------
(* Concurrent requests on the cache: coroutines that set and get two keys, *)
(* scheduled by the event loop while the clock runs.                       *)

NextLoop ==
    \/ \E id \in 1..MaxTasks, k \in CacheKeys, v \in CacheValues, ttl \in CacheTtls : co_set(id, k, v, ttl)
    \/ \E id \in 1..MaxTasks : co_set_store(id)
    \/ \E id \in 1..MaxTasks, k \in CacheKeys : co_get(id, k)
    \/ \E id \in 1..MaxTasks, e \in UNION {ListsOf(S) : S \in SUBSET DOMAIN store} : co_purge_scan(id, e)
    \/ \E id \in 1..MaxTasks : co_purge_del(id)
    \/ \E id \in 1..MaxTasks : co_get_return(id)
    \/ TickSecond

SpecLoop == InitCache /\ [][NextLoop]_vars

----------------------------------------------------------------------------
(* Abandoned requests: file-content, tree and search requests run as tasks *)
(* of the event loop over a corpus that does not change, and any of them   *)
(* may be cancelled where it waits.                                        *)

\* version 1 holds a/F.java ("Hi") and G.java ("yo"); version 2 has no src
CorpusC ==
    (V1 :> [src |-> "dir",
            nodes |-> (<<DirA>> :> DirOnDisk) @@ (<<DirA, FJava>> :> FileOnDisk(TextHi))
                      @@ (<<GJava>> :> FileOnDisk(TextYo))])
    @@ (V2 :> [src |-> "none", nodes |-> <<>>])

\* the durable store: no versions row, or a row for version 1
TaskDbs == {EmptyDb, [versions |-> {V1}, decompiled |-> <<V1>>, file_tree_cache |-> <<>>, files |-> {}]}

NextTasks ==
    \/ \E id \in 1..MaxTasks, p \in {DirA \o <<47>> \o FJava, GJava} : co_get_file_content(id, V1, p)
    \/ \E id \in 1..MaxTasks : co_get_file_content_read(id)
    \/ \E id \in 1..MaxTasks, v \in {V1, V2} : co_get_file_tree(id, v)
    \/ \E id \in 1..MaxTasks : co_fetchone(id)
    \/ \E id \in 1..MaxTasks : co_get_file_tree_db(id)
    \/ \E id \in 1..MaxTasks : co_execute(id)
    \/ \E id \in 1..MaxTasks : co_get_file_tree_persist(id)
    \/ \E id \in 1..MaxTasks, vs \in {None, Some(<<V1>>)}, o \in DirOrders :
          co_search(id, vs, QueryHi, MaxLimit, 0, o)
    \/ \E id \in 1..MaxTasks, o \in DirOrders : co_search_refresh(id, o)
    \/ \E id \in 1..MaxTasks : co_search_scan(id)
    \/ \E id \in 1..MaxTasks : co_search_read(id)
    \/ \E id \in 1..MaxTasks, c \in BOOLEAN : cancel(id, c)

SpecTasks == InitEnv({CorpusC}, TaskDbs) /\ [][NextTasks]_vars

----------------------------------------------------------------------------
(* Line numbers: searches over files of one and two lines, with the match  *)
(* on either line and with text before it that lower() makes longer.       *)

\* three capital I with dot above, then "Hi", a newline and "y"
TextDotted == <<304, 304, 304, 72, 105, 10, 121>>

\* the query "y"
QueryY == <<121>>

\* version 1 holds F.java ("x\nhi hi") and G.java (the dotted text); version 2
\* holds F.java ("Hi")
CorpusL ==
    (V1 :> [src |-> "dir",
            nodes |-> (<<FJava>> :> FileOnDisk(TextTwoLines)) @@ (<<GJava>> :> FileOnDisk(TextDotted))])
    @@ (V2 :> [src |-> "dir", nodes |-> (<<FJava>> :> FileOnDisk(TextHi))])

NextLines ==
    \/ \E vs \in VersionArgs, q \in {QueryHi, QueryY}, limit \in 1..MaxLimit,
          offset \in 0..MaxOffset, o \in SearchDirOrders : search(vs, q, limit, offset, o)
    \/ TickPastTtl

SpecLines == InitEnv({CorpusL}, SearchDbs) /\ [][NextLines]_vars

----------------------------------------------------------------------------
(* Indexing: the metadata of one version is gathered, with more files than *)
(* permits, a file that cannot be opened and one that is deleted meanwhile.*)

\* the name "H.java"
HJava == <<72, 46, 106, 97, 118, 97>>

\* version 1 holds F.java ("Hi"), G.java ("x\nhi hi"), the empty H.java and
\* a/F.java ("yo", not readable); version 2 has no src
CorpusX ==
    (V1 :> [src |-> "dir",
            nodes |-> (<<DirA>> :> DirOnDisk)
                      @@ (<<DirA, FJava>> :> [FileOnDisk(TextYo) EXCEPT !.readable = FALSE])
                      @@ (<<FJava>> :> FileOnDisk(TextHi))
                      @@ (<<GJava>> :> FileOnDisk(TextTwoLines))
                      @@ (<<HJava>> :> FileOnDisk(Empty))])
    @@ (V2 :> [src |-> "none", nodes |-> <<>>])

NextIndexer ==
    \/ \E v \in {V1, V2} : gather_file_metadata(v)
    \/ \E c \in DOMAIN fs[V1].nodes : process(c)
    \/ \E c \in DOMAIN fs[V1].nodes : process_open(c)
    \/ \E c \in DOMAIN fs[V1].nodes : process_counted(c)
    \/ \E c \in DOMAIN fs[V1].nodes : collect(c)
    \/ gather_return
    \/ DeleteFile(V1, <<GJava>>)

SpecIndexer == InitEnv({CorpusX}, {EmptyDb}) /\ [][NextIndexer]_vars

\* the event loop runs every task that can go on, and every read ends
FairIndexer ==
    /\ \A c \in DOMAIN CorpusX[V1].nodes :
          /\ WF_vars(process(c)) /\ WF_vars(process_open(c))
          /\ WF_vars(process_counted(c)) /\ WF_vars(collect(c))
    /\ WF_vars(gather_return)

SpecIndexerFair == SpecIndexer /\ FairIndexer

----------------------------------------------------------------------------
(* Concurrent tree requests: get_file_tree calls for versions the durable  *)
(* store knows run as tasks of the event loop over a corpus that does not  *)
(* change, interleaved at every wait for the database.                     *)

\* the durable store knows both versions; it holds no tree, a tree_json that
\* cannot be decoded, or a tree persisted earlier
KnownDbs ==
    { [versions |-> {V1, V2}, decompiled |-> <<V2, V1>>, file_tree_cache |-> <<>>, files |-> {}],
      [versions |-> {V1, V2}, decompiled |-> <<V2, V1>>, file_tree_cache |-> (V1 :> CorruptText), files |-> {}],
      [versions |-> {V1, V2}, decompiled |-> <<V2, V1>>, file_tree_cache |-> (V1 :> json_dumps(BareTree)), files |-> {}] }

NextTrees ==
    \/ \E id \in 1..MaxTasks, v \in {V1, V2} : co_get_file_tree(id, v)
    \/ \E id \in 1..MaxTasks : co_fetchone(id)
    \/ \E id \in 1..MaxTasks : co_get_file_tree_db(id)
    \/ \E id \in 1..MaxTasks : co_execute(id)
    \/ \E id \in 1..MaxTasks : co_get_file_tree_persist(id)

SpecTrees == InitEnv({CorpusC}, KnownDbs) /\ [][NextTrees]_vars

----------------------------------------------------------------------------
(* Tree requests over a corpus that changes: get_file_tree calls run as    *)
(* tasks of the event loop while a file is rewritten or deleted and the    *)
(* cache entries expire.                                                   *)

NextStale ==
    \/ \E id \in 1..MaxTasks : co_get_file_tree(id, V1)
    \/ \E id \in 1..MaxTasks : co_fetchone(id)
    \/ \E id \in 1..MaxTasks : co_get_file_tree_db(id)
    \/ \E id \in 1..MaxTasks : co_execute(id)
    \/ \E id \in 1..MaxTasks : co_get_file_tree_persist(id)
    \/ WriteFile(V1, <<GJava>>, TextHi)
    \/ DeleteFile(V1, <<GJava>>)
    \/ TickPastTtl

SpecStale == InitEnv({CorpusC}, KnownDbs) /\ [][NextStale]_vars

----------------------------------------------------------------------------
(* Indexing versions: index_version for a version with files and for one   *)
(* without a source root, on a store with and without their versions rows. *)

IndexDbs == {EmptyDb, [versions |-> {V1}, decompiled |-> <<V1>>, file_tree_cache |-> <<>>, files |-> {}]}

\* the orders in which the tasks of the files of version 1 may complete
IndexOrders == UNION {ListsOf(S) : S \in SUBSET {<<FJava>>, <<GJava>>, <<HJava>>}}

NextIndex ==
    \/ \E v \in {V1, V2}, o \in IndexOrders : index_version(v, o)
    \/ index_version_search
    \/ \E newest \in BOOLEAN : update_version_metadata(newest)
    \/ \E c \in {<<FJava>>, <<GJava>>} : DeleteFile(V1, c)

SpecIndex == InitEnv({CorpusX}, IndexDbs) /\ [][NextIndex]_vars

----------------------------------------------------------------------------
(* Repeated versions: searches whose version list names a version once,    *)
(* twice, or not at all.                                                   *)

\* request.versions: absent, version 1, version 1 twice, version 1 around version 2
RepeatArgs == {None, Some(<<V1>>), Some(<<V1, V1>>), Some(<<V1, V2, V1>>)}

NextRepeat ==
    \/ \E vs \in RepeatArgs, o \in SearchDirOrders : search(vs, QueryHi, MaxPageLimit, 0, o)
    \/ \E o \in DirOrders : refresh_index(o)
    \/ TickPastTtl

SpecRepeat == InitEnv({CorpusS}, SearchDbs) /\ [][NextRepeat]_vars

----------------------------------------------------------------------------
(* Refreshes: refresh_index over a registry that register_version and      *)
(* scoped searches have filled, with a store that lists both versions, one *)
(* of them or none, or that fails.                                         *)

RefreshDbs ==
    SearchDbs \cup {[versions |-> {V1, V2}, decompiled |-> <<V2>>, file_tree_cache |-> <<>>, files |-> {}]}

NextRefresh ==
    \/ \E o \in DirOrders : refresh_index(o)
    \/ \E o \in DirOrders : refresh_index_store_failed(o)
    \/ \E v \in {V1, V2}, files \in FilesArgs : register_version(v, files)
    \/ \E o \in SearchDirOrders : search(Some(<<V1>>), QueryHi, MaxPageLimit, 0, o)
    \/ Materialize(CorpusR)
    \/ DeleteFile(V1, <<FJava>>)

SpecRefresh == InitEnv({<<>>, CorpusR}, RefreshDbs) /\ [][NextRefresh]_vars

----------------------------------------------------------------------------
(* Health: GET /health while the database, the cache and the search        *)
(* service are connected and disconnected and the cache is looked up.      *)

\* the services as constructed, before on_start has run
InitHealth ==
    /\ store = <<>>
    /\ hits = 0
    /\ misses = 0
    /\ cache_connected = FALSE
    /\ hist = <<>>
    /\ now = 0
    /\ fs = CorpusR
    /\ db \in SearchDbs
    /\ registry = <<>>
    /\ ready = FALSE
    /\ heap = <<>>
    /\ loop = NoTasks
    /\ indexer = NotIndexing
    /\ db_connected = FALSE
    /\ last = [op |-> "init"]

NextHealth ==
    \/ \E r \in BOOLEAN : health(r)
    \/ db_connect
    \/ db_disconnect
    \/ connect
    \/ disconnect
    \/ \E o \in DirOrders : refresh_index(o)
    \/ \E k \in CacheKeys : get(k)
    \/ \E k \in CacheKeys, v \in CacheValues : set(k, v, None)

SpecHealth == InitHealth /\ [][NextHealth]_vars

----------------------------------------------------------------------------
(* What the claims are measured against: the files a search scans and the  *)
(* ones among them that hold the query, stated without the scan loop.      *)

Min(a, b) == IF a < b THEN a ELSE b

Max(a, b) == IF a > b THEN a ELSE b

\* the versions a search with request.versions = requested has scanned
ScannedVersions(requested) ==
    IF ~IsNone(requested) /\ Len(requested[1]) > 0 THEN requested[1] ELSE RegistryKeys(registry)

\* the (version, file) entries of these versions, in scan order
RECURSIVE ScannedEntries(_)
ScannedEntries(versions) ==
    IF Len(versions) = 0 THEN <<>>
    ELSE LET files == RegistryGet(registry, versions[1])[1]
         IN  [i \in 1..Len(files) |-> <<versions[1], files[i]>>] \o ScannedEntries(Tail(versions))

\* the query occurs in the content, letter case ignored
ContainsQuery(content, query) ==
    \E i \in 0..(Len(content) - Len(query)) :
        Lower(SubSeq(content, i + 1, i + Len(query))) = Lower(query)

\* the entry's file loads and its content holds the query
EntryMatches(e, query) ==
    /\ ~IsNone(get_file_content_ret(store, e[1], e[2]))
    /\ ContainsQuery(get_file_content_ret(store, e[1], e[2])[1].content, query)

\* the matching entries, in scan order
MatchSeq(requested, query) ==
    SelectSeq(ScannedEntries(ScannedVersions(requested)), LAMBDA e : EntryMatches(e, query))

\* the (version, file) pairs of a result list
ResultEntries(results) == [i \in 1..Len(results) |-> <<results[i].version, results[i].file_path>>]

----------------------------------------------------------------------------
(* The claims.                                                             *)

\* C1: the total a search returns is the number of scanned (version, file)
\* entries whose content holds the query, and the same request repeated with
\* any other limit and offset returns that total again: the scan does not
\* stop once the page is full.
C1_TotalIsExact ==
    last.op = "search" =>
        /\ last.total = Len(MatchSeq(last.versions, last.query))
        /\ \A o \in SearchDirOrders, limit \in 1..MaxLimit, offset \in 0..MaxOffset :
              search_run(last.versions, last.query, limit, offset, o).total = last.total

\* a search whose page is full while further matches follow it
C1_Witness ==
    /\ last.op = "search"
    /\ Len(last.results) = last.limit
    /\ last.total > last.offset + last.limit

\* C2: the pages fetched one after the other for offset = 0, limit, 2*limit,
\* ... up to the total, with nothing but time passing in between, concatenate to the
\* unpaginated result: every matching file once, in scan order.
C2_PagesConcatenate ==
    (last.op = "search" /\ last.first = 0 /\ last.offset + last.limit >= last.total)
    => /\ ResultEntries(last.pages) = MatchSeq(last.versions, last.query)
       /\ \A o \in SearchDirOrders :
             last.pages = search_run(last.versions, last.query, MaxPageLimit, 0, o).results

\* the third page of a paged search that began at offset 0 has been fetched
C2_Witness ==
    /\ last.op = "search"
    /\ last.first = 0
    /\ last.offset = 2 * last.limit
    /\ last.offset + last.limit >= last.total
    /\ Len(last.pages) = 3

\* C3: the page holds exactly the matches whose 1-based ordinal in scan order
\* lies in (offset, offset + limit], in scan order; its length is
\* min(limit, max(0, total - offset)) and never exceeds limit.
C3_PageIsWindow ==
    last.op = "search" =>
        LET all == MatchSeq(last.versions, last.query)
        IN  /\ ResultEntries(last.results)
                 = SubSeq(all, last.offset + 1, Min(last.offset + last.limit, Len(all)))
            /\ Len(last.results) = Min(last.limit, Max(0, last.total - last.offset))
            /\ Len(last.results) <= last.limit

\* a page that starts after the first match and is cut short by the limit
C3_Witness ==
    /\ last.op = "search"
    /\ last.offset > 0
    /\ Len(last.results) = last.limit
    /\ last.total > last.offset + last.limit

\* C4: once get_file_content has succeeded for (version, path), a call for it
\* within the TTL returns the same content without opening the file, for
\* every content, the empty one included.
C4_SecondReadFromCache ==
    [][ (/\ last'.op = "get_file_content"
         /\ cache_key_file(last'.version, last'.path) \in DOMAIN hist
         /\ now < hist[cache_key_file(last'.version, last'.path)].at + cache_ttl)
        => /\ ~IsNone(last'.ret)
           /\ last'.ret[1].content = hist[cache_key_file(last'.version, last'.path)].value.str
           /\ ~last'.opened ]_vars

\* C5: when get_file_tree rebuilds the tree from disk it returns the tree, and
\* the cache entry tree:<version> and the file_tree_cache row then hold it,
\* with or without a versions row.
C5_RebuiltTreeInBothTiers ==
    (last.op = "get_file_tree" /\ last.walked)
    => /\ ~IsNone(last.ret)
       /\ cache_key_tree(last.version) \in DOMAIN store
       /\ store[cache_key_tree(last.version)].value = JsonVal(build_tree(last.version, <<>>))
       /\ last.version \in DOMAIN db.file_tree_cache
       /\ db.file_tree_cache[last.version] = json_dumps(build_tree(last.version, <<>>))

\* C6: none of get_file_tree, get_file_content, list_files and search raises.
C6_NothingRaises ==
    last.op \in {"get_file_tree", "get_file_content", "list_files", "search"} => ~last.raised

\* C7: get_file_tree answers from the first tier that has the tree: a cache
\* hit without reading the durable store or walking the disk; after a cache
\* miss a durable-store hit without walking the disk, written to the cache
\* with the configured TTL.
C7_TierOrder ==
    [][ last'.op = "get_file_tree" =>
        LET key == cache_key_tree(last'.version)
            c == Lookup(store, now, key)
            d == db_get_file_tree(db, last'.version)
        IN  /\ ~IsNone(c) =>
                 /\ last'.ret = c[1].value.json
                 /\ ~last'.db_read /\ ~last'.walked
                 /\ db' = db
                 /\ store' = PurgeExpired(store, now)
            /\ (IsNone(c) /\ ~IsNone(d)) =>
                 /\ last'.ret = d
                 /\ last'.db_read /\ ~last'.walked
                 /\ db' = db
                 /\ key \in DOMAIN store'
                 /\ store'[key] = CacheEntry(JsonVal(d[1]), Some(now + cache_ttl)) ]_vars

\* a cache hit that answers with the tree the durable store supplied earlier,
\* while the disk holds a different tree
C7_Witness ==
    /\ last.op = "get_file_tree"
    /\ last.tier = "cache"
    /\ db_get_file_tree(db, last.version) = last.ret
    /\ PathIsDir([version |-> last.version, comps |-> <<>>])
    /\ last.ret # Some(build_tree(last.version, <<>>))

\* C8: with no tree in the cache, none in the durable store and no source
\* root on disk, get_file_tree returns absent and writes neither tier.
C8_NotFoundWritesNothing ==
    [][ (/\ last'.op = "get_file_tree"
         /\ IsNone(Lookup(store, now, cache_key_tree(last'.version)))
         /\ IsNone(db_get_file_tree(db, last'.version))
         /\ ~PathExists([version |-> last'.version, comps |-> <<>>]))
        => /\ IsNone(last'.ret)
           /\ ~last'.raised
           /\ db' = db
           /\ DOMAIN store' \subseteq DOMAIN store
           /\ \A k \in DOMAIN store' : store'[k] = store[k] ]_vars

\* an absent answer given while the cache holds the tree of another version
C8_Witness ==
    /\ last.op = "get_file_tree"
    /\ last.tier = "none"
    /\ IsNone(last.ret)
    /\ DOMAIN store # {}

\* C9: an entry set with ttl = 1 is returned by a get before one second has
\* passed and absent for a get after more than one second; an entry set with
\* no ttl is returned by every get until it is deleted, overwritten or the
\* cache is disconnected.
C9_TtlExpiry ==
    [][ (last'.op = "get" /\ last'.key \in DOMAIN hist) =>
        LET h == hist[last'.key]
        IN  /\ IsNone(h.ttl) => last'.ret = Some(h.value)
            /\ (h.ttl = Some(1) /\ now < h.at + 1) => last'.ret = Some(h.value)
            /\ (h.ttl = Some(1) /\ now > h.at + 1) => IsNone(last'.ret) ]_vars

\* a get that finds an entry set with ttl = 1 gone, two seconds after the set
C9_Witness ==
    /\ last.op = "get"
    /\ last.key \in DOMAIN hist
    /\ hist[last.key].ttl = Some(1)
    /\ now > hist[last.key].at + 1
    /\ IsNone(last.ret)

\* C10: every get, get_json and get_str moves exactly one counter by one:
\* misses when the key is missing or its entry has expired, hits otherwise.
C10_OneCounterPerGet ==
    [][ last'.op \in {"get", "get_json", "get_str"} =>
        LET live == /\ last'.key \in DOMAIN store
                    /\ ~(/\ ~IsNone(store[last'.key].expires_at)
                         /\ store[last'.key].expires_at[1] < now)
        IN  /\ live => (hits' = hits + 1 /\ misses' = misses)
            /\ ~live => (misses' = misses + 1 /\ hits' = hits) ]_vars

\* a get_str that missed after an earlier lookup hit
C10_Witness ==
    /\ last.op = "get_str"
    /\ IsNone(last.ret)
    /\ hits > 0
    /\ misses > 0

\* C11: get_hit_rate returns hits / (hits + misses) once a lookup has been
\* counted and 0.0 before any; after 3 hits and 1 miss it returns 0.75.
C11_HitRate ==
    last.op = "get_hit_rate" =>
        /\ hits + misses > 0 => last.ret.num * (hits + misses) = hits * last.ret.den
        /\ hits + misses = 0 => last.ret.num = 0
        /\ (hits = 3 /\ misses = 1) => last.ret.num * 100 = 75 * last.ret.den
        /\ last.ret.den > 0

\* the rate read after exactly three hits and one miss
C11_Witness ==
    /\ last.op = "get_hit_rate"
    /\ hits = 3
    /\ misses = 1

\* C12: while the entry a set_json stored is in the cache, every get_json of
\* its key returns the document the object had when set_json was called,
\* whatever callers have since done to that object or to the objects earlier
\* get_json calls returned.
C12_JsonIsolated ==
    [][ (/\ last'.op = "get_json"
         /\ last'.key \in DOMAIN hist
         /\ ~IsNone(Lookup(store, now, last'.key)))
        => /\ last'.doc = Some(hist[last'.key].value.json[1])
           /\ heap'[last'.ret[1].id].doc = hist[last'.key].value.json[1] ]_vars

\* a get_json that returns the stored document after the object passed to
\* set_json and the object an earlier get_json returned were both changed
C12_Witness ==
    /\ last.op = "get_json"
    /\ ~IsNone(last.ret)
    /\ last.key \in DOMAIN hist
    /\ \E a, b \in DOMAIN heap :
          /\ a # b /\ a # last.ret[1].id /\ b # last.ret[1].id
          /\ heap[a].held /\ heap[b].held
          /\ heap[a].doc # last.doc[1] /\ heap[b].doc # last.doc[1]
          /\ Len(heap) = 4

\* C13: after disconnect() the store is empty and is_connected() is false;
\* after connect() is_connected() is true and the stored entries are the
\* same; either one called a second time in a row changes nothing.
C13_LifecycleIdempotent ==
    [][ /\ last'.op = "disconnect" => (store' = <<>> /\ ~is_connected')
        /\ last'.op = "connect" => (is_connected' /\ store' = store)
        /\ (last'.op \in {"connect", "disconnect"} /\ last.op = last'.op)
              => <<store, hits, misses, cache_connected>>' = <<store, hits, misses, cache_connected>>
      ]_vars

\* connect() called twice in a row on a cache that holds an entry
C13_Witness ==
    /\ last.op = "connect"
    /\ last.again
    /\ store # <<>>
    /\ is_connected

\* the request cannot be served from disk: the path does not exist, cannot be
\* read, is the empty path, or the version has no source root
NotServable(version, path) ==
    \/ ~PathExists(get_file_path(version, path))
    \/ ~CanRead(get_file_path(version, path))
    \/ path = <<>>
    \/ SrcKind(version) = "none"

RECURSIVE Enumerations(_)
Enumerations(S) ==
    IF S = {} THEN {<<>>}
    ELSE UNION {{<<x>> \o e : e \in Enumerations(S \ {x})} : x \in S}

\* at every level of the tree the directories come before the files and the
\* names ascend within each group
RECURSIVE TreeOrdered(_)
TreeOrdered(node) ==
    IsNone(node.children) \/
    LET c == node.children[1]
    IN  /\ \A i, j \in 1..Len(c) :
              i < j => /\ ~(c[i].type = "file" /\ c[j].type = "directory")
                       /\ c[i].type = c[j].type => StrLess(c[i].name, c[j].name)
        /\ \A i \in 1..Len(c) : TreeOrdered(c[i])

\* the directories of a source root that _build_tree lists
WalkedDirs(version) ==
    {c \in {<<>>} \cup DOMAIN fs[version].nodes :
        /\ CanList([version |-> version, comps |-> c])
        /\ \A n \in 1..Len(c) - 1 : CanList([version |-> version, comps |-> SubSeq(c, 1, n)])}

\* C15: the tree built from a source root has, at every level, its
\* directories before its files and each group in ascending order of name;
\* it is the same tree in whatever order iterdir() yields the entries, so an
\* unchanged directory gives the same tree again.
C15_TreeOrderedAndStable ==
    (last.op = "get_file_tree" /\ last.walked) =>
        /\ TreeOrdered(build_tree(last.version, <<>>))
        /\ ~last.raised => last.ret = Some(build_tree(last.version, <<>>))
        /\ \A d \in WalkedDirs(last.version) :
              \A order \in Enumerations(DirEntries([version |-> last.version, comps |-> d])) :
                  sorted_children(last.version, order)
                      = SortChildren(last.version, DirEntries([version |-> last.version, comps |-> d]))

\* a tree returned from a walk whose root holds two directories and two files
C15_Witness ==
    /\ last.op = "get_file_tree"
    /\ last.walked
    /\ ~IsNone(last.ret)
    /\ Len(last.ret[1].children[1]) = 4
    /\ last.ret[1].children[1][2].type = "directory"
    /\ last.ret[1].children[1][3].type = "file"

\* the FileNode invariant below a node: a file has no children, a directory
\* has a children sequence
RECURSIVE NodeWellFormed(_)
NodeWellFormed(node) ==
    /\ node.type \in {"file", "directory"}
    /\ node.type = "file" => IsNone(node.children)
    /\ node.type = "directory" =>
          (~IsNone(node.children)
           /\ \A i \in 1..Len(node.children[1]) : NodeWellFormed(node.children[1][i]))

\* C16: every tree get_file_tree returns has a root that is a directory named
\* "src", files without children and directories with a children sequence.
C16_TreeWellFormed ==
    (last.op = "get_file_tree" /\ ~IsNone(last.ret)) =>
        /\ NodeWellFormed(last.ret[1])
        /\ last.ret[1].type = "directory"
        /\ last.ret[1].name = SrcName

\* C17: a search that names versions scans exactly those, in the order given;
\* one that names none scans the keys of the registry in registry order (the
\* registry as the refresh left it, when the search had to refresh first);
\* with an empty registry it scans the version directories of the data root.
C17_SearchScope ==
    [][ last'.op = "search" =>
        LET named == ~IsNone(last'.versions) /\ Len(last'.versions[1]) > 0
        IN  /\ named => last'.scanned = last'.versions[1]
            /\ (~named /\ ready /\ Len(registry) > 0) => last'.scanned = RegistryKeys(registry)
            /\ (~named /\ ready /\ Len(registry) = 0) => last'.scanned \in DirOrders
            /\ (~named /\ ~ready) => last'.scanned = RegistryKeys(registry') ]_vars

\* a search by a ready service, without versions, that scanned the registry
\* in its own order: version 2, then version 1
C17_Witness ==
    /\ last.op = "search"
    /\ IsNone(last.versions)
    /\ ~last.refreshed
    /\ last.scanned = <<V2, V1>>
    /\ db.decompiled = <<>>

\* the text holds the query somewhere, letter case ignored
HoldsIgnoringCase(text, query) ==
    \E i \in 0..(Len(text) - Len(query)) :
        \A k \in 1..Len(query) : LowerChar(text[i + k]) = LowerChar(query[k])

\* the scanned entry loads, has content and holds the query
Contributes(e, query) ==
    LET fc == get_file_content_ret(store, e[1], e[2])
    IN  /\ ~IsNone(fc)
        /\ Len(fc[1].content) > 0
        /\ HoldsIgnoringCase(fc[1].content, query)

\* C18: total is the number of scanned entries that load, have content and
\* hold the query whatever the letter case; each of them gives one result,
\* however often the query occurs in it, and the others are skipped without
\* an error.
C18_OnePerMatchingFile ==
    last.op = "search" =>
        LET matching == SelectSeq(last.loaded, LAMBDA e : Contributes(e, last.query))
        IN  /\ last.total = Len(matching)
            /\ ResultEntries(last.results)
                  = SubSeq(matching, last.offset + 1, Min(last.offset + last.limit, Len(matching)))
            /\ ~last.raised

\* a search over four files: one holds the query twice, one once, one is
\* empty and one cannot be read
C18_Witness ==
    /\ last.op = "search"
    /\ Len(last.loaded) = 4
    /\ last.total = 2
    /\ Len(last.results) = 2
    /\ \E i \in 1..4 : IsNone(get_file_content_ret(store, last.loaded[i][1], last.loaded[i][2]))

\* C19: the service is ready exactly when its registry has been populated;
\* a search that finds it not ready refreshes the registry first and leaves
\* it ready; once ready it stays ready.
C19_ReadyIffPopulated ==
    [][ /\ Len(registry') > 0 => ready'
        /\ (~ready /\ ready') => last'.op \in {"search", "refresh_index"}
        /\ (last'.op = "search" /\ ~ready) =>
              \A i \in 1..Len(db.decompiled) : RegistryHas(registry', db.decompiled[i])
        /\ last'.op = "search" => ready'
        /\ ready => ready' ]_vars

\* C20: register_version sets the entry of its version to the given paths (or
\* to list_files(version) without them) and leaves every other entry as it
\* was; a search scoped to that version right after it loads exactly those
\* paths in that order.
C20_RegisterVersion ==
    [][ /\ last'.op = "register_version" =>
              /\ RegistryGet(registry', last'.version)
                    = Some(IF IsNone(last'.files) THEN list_files_ret(last'.version, <<>>)
                           ELSE last'.files[1])
              /\ \A v \in {V1, V2} \ {last'.version} :
                    RegistryGet(registry', v) = RegistryGet(registry, v)
        /\ (/\ last.op = "register_version"
            /\ last'.op = "search"
            /\ last'.versions = Some(<<last.version>>))
              => last'.loaded = [i \in 1..Len(RegistryGet(registry, last.version)[1]) |->
                                   <<last.version, RegistryGet(registry, last.version)[1][i]>>]
      ]_vars

\* the paths below a directory of the source root whose last name ends in
\* ".java", whether or not the directories above them can be listed
JavaPathsUnder(version, directory) ==
    LET dir_path == get_file_path(version, directory)
    IN  IF ~PathIsDir(dir_path) THEN {}
        ELSE {c \in DOMAIN fs[version].nodes :
                 /\ Len(c) > Len(dir_path.comps)
                 /\ SubSeq(c, 1, Len(dir_path.comps)) = dir_path.comps
                 /\ MatchesJava(c[Len(c)])}

\* C21: list_files returns, ascending and relative to the source root,
\* exactly the paths ending in ".java" that exist under the directory at the
\* time of the call, and the empty list when the directory is missing.
C21_ListsWhatExists ==
    last.op = "list_files" =>
        last.ret = SortStrs({JoinPath(c) : c \in JavaPathsUnder(last.version, last.directory)})

\* C22: when the persisted tree document of the version does not parse,
\* get_file_tree raises nothing; with a source root it returns the tree built
\* from the filesystem and leaves that tree both in the cache and in the
\* persisted document; without one it returns absent and writes nothing.
C22_CorruptTreeRebuilt ==
    [][ (last'.op = "get_file_tree" /\ decode_fails(db, last'.version)) =>
        LET v == last'.version
            key == cache_key_tree(v)
        IN  /\ ~last'.raised
            /\ PathExists([version |-> v, comps |-> <<>>]) =>
                  /\ last'.walked
                  /\ last'.ret = Some(build_tree(v, <<>>))
                  /\ key \in DOMAIN store'
                  /\ store'[key] = CacheEntry(JsonVal(build_tree(v, <<>>)), Some(now + cache_ttl))
                  /\ db'.file_tree_cache[v] = json_dumps(build_tree(v, <<>>))
            /\ ~PathExists([version |-> v, comps |-> <<>>]) =>
                  /\ last'.ret = None
                  /\ key \notin DOMAIN store'
                  /\ db' = db ]_vars

\* a corrupt document was met and replaced by the tree of the two files on disk
C22_Witness ==
    /\ last.op = "get_file_tree"
    /\ last.decode_failed
    /\ last.version = V1
    /\ Len(last.ret[1].children[1]) = 2
    /\ db.file_tree_cache[V1] = json_dumps(last.ret[1])
    /\ decode_fails(db, V2)

\* the node of a tree at a path below its root, if the tree has one
RECURSIVE NodeAt(_, _)
NodeAt(node, comps) ==
    IF Len(comps) = 0 THEN Some(node)
    ELSE IF IsNone(node.children) THEN None
    ELSE LET at == {i \in 1..Len(node.children[1]) : node.children[1][i].name = comps[1]}
         IN  IF at = {} THEN None
             ELSE NodeAt(node.children[1][CHOOSE i \in at : TRUE], Tail(comps))

\* the directory grants the permission to list it
Permits(version, comps) == comps = <<>> \/ fs[version].nodes[comps].readable

\* C23: in a tree built from a source root, a subdirectory that cannot be
\* listed is a directory node with empty children and nothing below it is in
\* the tree; every other directory has a node for each of its entries, and
\* every file its node with its size.
C23_UnlistableOnlyLosesChildren ==
    (last.op = "get_file_tree" /\ last.walked /\ ~IsNone(last.ret) /\ SrcKind(last.version) = "dir") =>
        \A c \in {<<>>} \cup DOMAIN fs[last.version].nodes :
            LET v == last.version
                n == NodeAt(last.ret[1], c)
                p == [version |-> v, comps |-> c]
                shown == \A k \in 0..(Len(c) - 1) : Permits(v, SubSeq(c, 1, k))
                names == {e[Len(e)] : e \in DirEntries(p)}
            IN  /\ ~shown => IsNone(n)
                /\ shown =>
                      /\ ~IsNone(n)
                      /\ n[1].path = JoinPath(c)
                      /\ PathIsFile(p) => (n[1].type = "file" /\ n[1].size = Some(StatSize(p)))
                      /\ PathIsDir(p) => (n[1].type = "directory" /\ ~IsNone(n[1].children))
                      /\ (PathIsDir(p) /\ ~Permits(v, c)) => n[1].children = Some(<<>>)
                      /\ (PathIsDir(p) /\ Permits(v, c)) =>
                            /\ Len(n[1].children[1]) = Cardinality(names)
                            /\ {n[1].children[1][i].name : i \in 1..Len(n[1].children[1])} = names

\* a tree built while directory b, which cannot be listed, holds F.java: b is
\* in the tree with no children, next to its sibling a with a/F.java and the
\* two files of the root
C23_Witness ==
    /\ last.op = "get_file_tree"
    /\ last.walked
    /\ ~IsNone(last.ret)
    /\ last.version = V1
    /\ <<DirB, FJava>> \in DOMAIN fs[V1].nodes
    /\ ~Permits(V1, <<DirB>>)
    /\ NodeAt(last.ret[1], <<DirB>>) = Some(FileNode(DirB, DirB, "directory", None, Some(<<>>)))
    /\ ~IsNone(NodeAt(last.ret[1], <<DirA, FJava>>))
    /\ Len(last.ret[1].children[1]) = 4

\* C24: when get_file_content does not find the content in the cache and
\* reads the file, then on return the cache holds the whole text of the file
\* under "file:<version>:<path>", expiring cache_ttl seconds after the call,
\* and the content returned is that cached text.
C24_ReadIsCached ==
    [][ (last'.op = "get_file_content" /\ last'.opened /\ ~IsNone(last'.ret)) =>
        LET key == FilePrefix \o last'.version \o <<58>> \o last'.path
            text == PathContent(get_file_path(last'.version, last'.path))
        IN  /\ key \in DOMAIN store'
            /\ store'[key] = CacheEntry(StrVal(text), Some(now + cache_ttl))
            /\ last'.ret[1].content = store'[key].value.str ]_vars

\* a/F.java read from disk after its entry expired and the file was rewritten
C24_Witness ==
    /\ last.op = "get_file_content"
    /\ last.opened
    /\ ~IsNone(last.ret)
    /\ last.ret[1].content = TextYo
    /\ last.path = DirA \o <<47>> \o FJava
    /\ now >= cache_ttl
    /\ store[cache_key_file(V1, last.path)].value = StrVal(TextYo)

\* C25: when the cache holds a live entry for the file, get_file_content
\* returns the text of that entry with the size the file has on disk at the
\* call (0 when the file no longer exists), and leaves the entry as it is.
C25_HitServesCachedText ==
    [][ (/\ last'.op = "get_file_content"
         /\ ~IsNone(Lookup(store, now, cache_key_file(last'.version, last'.path)))) =>
        LET key == cache_key_file(last'.version, last'.path)
            file_path == get_file_path(last'.version, last'.path)
        IN  /\ ~IsNone(last'.ret)
            /\ last'.ret[1].content = store[key].value.str
            /\ last'.ret[1].size = IF PathExists(file_path) THEN StatSize(file_path) ELSE 0
            /\ key \in DOMAIN store'
            /\ store'[key] = store[key] ]_vars

\* the store without the entries whose expiry is set and lies before t
Unexpired(s, t) ==
    [k \in {k \in DOMAIN s : IsNone(s[k].expires_at) \/ s[k].expires_at[1] >= t} |-> s[k]]

\* C26: an entry leaves the store only in get, get_json, get_str, exists,
\* delete, delete_pattern and disconnect; the sweep of a get or an exists
\* removes, from the whole store, exactly the entries whose expiry is set and
\* strictly before the current time; delete and delete_pattern remove only
\* the key or the matching keys; a set leaves every other entry as it was.
C26_OnlySweepsAndDeletesRemove ==
    [][ /\ (DOMAIN store \ DOMAIN store' # {}) =>
              last'.op \in {"get", "get_json", "get_str", "exists",
                            "delete", "delete_pattern", "disconnect"}
        /\ last'.op \in {"get", "get_json", "get_str", "exists"} =>
              store' = Unexpired(store, now)
        /\ last'.op = "set" =>
              \A k \in DOMAIN store \ {last'.key} : k \in DOMAIN store' /\ store'[k] = store[k]
        /\ last'.op = "delete" =>
              store' = [k \in DOMAIN store \ {last'.key} |-> store[k]]
        /\ last'.op = "delete_pattern" =>
              store' = [k \in {k \in DOMAIN store : ~fnmatch(k, last'.pattern)} |-> store[k]]
      ]_vars

\* an exists() for one key swept the expired entry of the other key and kept
\* the entry of its own key, which has no expiry
C26_Witness ==
    /\ last.op = "exists"
    /\ last.ret
    /\ last.swept = CacheKeys \ {last.key}
    /\ IsNone(store[last.key].expires_at)

\* C27: whatever the event loop interleaves, an entry of the store is the
\* value and the expiry of the set() that last stored under its key, whenever
\* no coroutine is between two statements; a get() reads such an entry or
\* none, from a store in which no entry is expired as of its sweep and on
\* which no other coroutine is in the middle of a sweep; and a sweep deletes
\* only entries that are expired and never fails on a key.
C27_LastWriteWins ==
    /\ loop.running = 0 =>
          \A k \in DOMAIN store :
              /\ k \in DOMAIN hist
              /\ store[k] = CacheEntry(hist[k].value,
                                       IF NumTruthy(hist[k].ttl) THEN Some(hist[k].at + hist[k].ttl[1])
                                       ELSE None)
    /\ last.op = "co_get" =>
          /\ last.sweeping = {}
          /\ \A k \in DOMAIN last.seen :
                IsNone(last.seen[k].expires_at) \/ last.seen[k].expires_at[1] >= last.at
          /\ ~IsNone(last.entry) =>
                /\ last.entry[1].value = hist[last.key].value
                /\ IsNone(last.entry[1].expires_at) = ~NumTruthy(hist[last.key].ttl)
                /\ ~IsNone(last.entry[1].expires_at) =>
                      last.entry[1].expires_at[1] = hist[last.key].at + hist[last.key].ttl[1]
    /\ last.op = "co_purge" => (~last.raised /\ last.expired)

\* a set() has just replaced the entry another set() stored under the key,
\* with another value and another expiry
C27_Witness ==
    /\ last.op = "co_set"
    /\ loop.running = 0
    /\ ~IsNone(last.replaced)
    /\ last.replaced[1].value # store[last.key].value
    /\ ~IsNone(last.replaced[1].expires_at)
    /\ ~IsNone(store[last.key].expires_at)
    /\ last.replaced[1].expires_at # store[last.key].expires_at

\* the entry under the key is the whole text of a file of the corpus, under
\* the key of that file, or the whole tree of a version, under its key
CompleteEntry(k) ==
    \/ \E v \in DOMAIN fs : \E c \in DOMAIN fs[v].nodes :
          /\ fs[v].nodes[c].type = "file"
          /\ k = FilePrefix \o v \o <<58>> \o JoinPath(c)
          /\ store[k].value = StrVal(fs[v].nodes[c].content)
    \/ \E v \in DOMAIN fs :
          /\ k = TreePrefix \o v
          /\ store[k].value = JsonVal(build_tree(v, <<>>))

\* C28: whichever requests have been abandoned where they waited, every
\* cache entry is the whole text of its file or the whole tree of its
\* version, every registry entry is the complete list of the version's
\* paths, and every persisted tree is a whole tree.
C28_NoPartialWrites ==
    /\ \A k \in DOMAIN store : CompleteEntry(k)
    /\ \A i \in 1..Len(registry) :
          registry[i].files
             = SortStrs({JoinPath(c) : c \in JavaPathsUnder(registry[i].version, <<>>)})
    /\ \A v \in DOMAIN db.file_tree_cache :
          db.file_tree_cache[v] = json_dumps(build_tree(v, <<>>))

\* a search is abandoned while it waits for the read of its second file: the
\* version is registered and the first file is cached, the second is not
C28_Witness ==
    /\ last.op = "cancel"
    /\ last.pc = "s_73"
    /\ RegistryHas(registry, V1)
    /\ cache_key_file(V1, GJava) \in DOMAIN store
    /\ cache_key_file(V1, DirA \o <<47>> \o FJava) \notin DOMAIN store

\* the 0-based index of the first place where the text holds the query,
\* letter case ignored
FirstAt(text, query) ==
    CHOOSE i \in 0..(Len(text) - Len(query)) :
        /\ \A k \in 1..Len(query) : LowerChar(text[i + k]) = LowerChar(query[k])
        /\ \A j \in 0..(i - 1) : \E k \in 1..Len(query) : LowerChar(text[j + k]) # LowerChar(query[k])

\* C29: the line number of every search result is one plus the number of
\* newlines of the file's content before the first place where the content
\* holds the query, letter case ignored.
C29_LineNumber ==
    last.op = "search" =>
        \A i \in 1..Len(last.results) :
            LET r == last.results[i]
                content == PathContent(get_file_path(r.version, r.file_path))
                at == FirstAt(content, last.query)
            IN  /\ r.line_number[1] >= 1
                /\ r.line_number = Some(1 + Cardinality({n \in 1..at : content[n] = 10}))

\* C30: while the metadata of a version is gathered, at most settings.threads
\* tasks are inside the semaphore-guarded section and the semaphore holds the
\* permits that are left; the list returned holds exactly the metadata of the
\* files whose task did not fail, every task having been awaited; and a gather
\* that has started returns.
InsideSection == {c \in DOMAIN indexer.tasks : indexer.tasks[c].pc \in {"opening", "counting"}}

C30_Safety ==
    /\ indexer.gathering =>
          /\ Cardinality(InsideSection) <= threads
          /\ indexer.semaphore = threads - Cardinality(InsideSection)
          /\ indexer.completed
                = Cardinality({c \in DOMAIN indexer.tasks : indexer.tasks[c].pc = "collected"})
    /\ last.op = "gather" =>
          /\ last.failed \subseteq last.files
          /\ Len(last.ret) = Cardinality(last.files \ last.failed)
          /\ {last.ret[i].path : i \in 1..Len(last.ret)} = {JoinPath(c) : c \in last.files \ last.failed}

C30_WitnessReturned ==
    /\ last.op = "gather"
    /\ last.failed # {}
    /\ Len(last.ret) >= threads

\* the tree of a version as its requests are to return it: the tree the
\* durable store holds, or else the tree of the directory on disk
TreeOf(version) ==
    IF ~IsNone(db_get_file_tree(db, version)) THEN db_get_file_tree(db, version)
    ELSE IF PathExists([version |-> version, comps |-> <<>>]) THEN Some(build_tree(version, <<>>))
    ELSE None

Quiescent == \A id \in 1..MaxTasks : loop.tasks[id].pc = "idle"

\* C31: with the filesystem unchanged and the versions known to the durable
\* store, through every interleaving of get_file_tree calls there is one tree
\* of a version: every call returns it and none raises, the cache never
\* holds another, no call is about to store or persist another, and once all
\* the calls have returned the cache and the durable store both hold it.
C31_ConcurrentTreeCallsAgree ==
    /\ last.op = "co_get_file_tree" =>
          /\ ~last.raised
          /\ last.ret = TreeOf(last.version)
          /\ (Quiescent /\ ~IsNone(last.ret)) =>
                /\ tree_cached(last.version) = Some(JsonVal(last.ret[1]))
                /\ db_get_file_tree(db, last.version) = last.ret
    /\ \A v \in {V1, V2} :
          ~IsNone(tree_cached(v)) => tree_cached(v) = Some(JsonVal(TreeOf(v)[1]))
    /\ \A id \in 1..MaxTasks :
          LET t == loop.tasks[id]
          IN  /\ (t.pc = "gft_53" /\ ~IsNone(t.db_cached)) => t.db_cached = TreeOf(t.version)
              /\ t.pc \in {"gft_65", "gft_66"} => Some(t.tree) = TreeOf(t.version)

\* one call was answered from the cache with the tree that another call has
\* built and stored there but not yet persisted
C31_Witness ==
    /\ last.op = "co_get_file_tree"
    /\ last.tier = "memory"
    /\ IsNone(db_get_file_tree(db, last.version))
    /\ \E id \in 1..MaxTasks : loop.tasks[id].pc = "gft_65" /\ loop.tasks[id].version = last.version

\* two calls missed the cache and the store, and both built and persisted the tree
C31_WitnessBothBuilt ==
    /\ last.op = "co_get_file_tree"
    /\ last.tier = "disk"
    /\ Quiescent
    /\ hits = 0
    /\ misses = 2
    /\ hist[cache_key_tree(V1)].at = now
    /\ last.version = V1

\* C32: once the durable store holds a valid tree document for a version,
\* the document stays the same, no get_file_tree walks the filesystem for
\* that version, and every get_file_tree that returns for that version
\* returns the tree of the document.
C32_PersistedTreeIsFinal ==
    [][\A v \in {V1} :
          ~IsNone(db_get_file_tree(db, v)) =>
              /\ db_get_file_tree(db, v)' = db_get_file_tree(db, v)
              /\ \A id \in 1..MaxTasks :
                    (loop.tasks[id].pc = "gft_53" /\ loop.tasks[id].version = v)
                       => loop'.tasks[id].pc # "gft_65"
              /\ (last'.op = "co_get_file_tree" /\ last'.version = v)
                    => last'.ret = db_get_file_tree(db, v)]_vars

\* C33: index_version on a version without a versions row completes without
\* error, having called add_files_bulk, register_version and upsert_version in
\* this order, and every files row refers to a versions row.
C33_IndexesUnknownVersion ==
    /\ (last.op = "index_version" /\ ~last.known) =>
          /\ ~last.raised
          /\ last.steps = <<"add_files_bulk", "register_version", "upsert_version">>
    /\ \A f \in db.files : f.version_id \in db.versions

\* C34: the counters start at zero; every get, get_json and get_str adds one
\* to hits + misses and lowers neither counter; every other operation of the
\* cache leaves both counters as they are, and disconnect empties the store
\* while it does so.
C34_OnlyLookupsCount ==
    /\ hits = 0 /\ misses = 0
    /\ [][/\ last'.op \in {"get", "get_json", "get_str"} =>
                /\ hits' + misses' = hits + misses + 1
                /\ hits' >= hits
                /\ misses' >= misses
          /\ last'.op \in {"set", "delete", "delete_pattern", "exists", "connect", "disconnect"} =>
                /\ hits' = hits
                /\ misses' = misses
          /\ last'.op = "disconnect" => store' = <<>>]_vars

\* a first disconnect has left the store empty and both counters, raised by
\* earlier lookups, above zero
C34_Witness ==
    /\ last.op = "disconnect"
    /\ ~last.again
    /\ store = <<>>
    /\ hits > 0
    /\ misses > 0

\* C35: a search leaves the registry as the refresh that preceded it left it
\* (its own refresh, when the service was not ready): it registers no version
\* and replaces no path list.
C35_SearchKeepsRegistry ==
    [][last'.op = "search" =>
          \E o \in SearchDirOrders :
              registry' = IF ready THEN registry
                          ELSE refresh_registry(registry, refresh_versions(o))]_vars

\* the (version, filePath) pairs of the results of the last search
ResultPairs == {<<last.results[i].version, last.results[i].file_path>> : i \in 1..Len(last.results)}

\* C36: the results of an unpaginated search hold no (version, filePath) pair
\* twice, and total counts each of them once.
C36_NoDuplicateResults ==
    (last.op = "search" /\ last.offset = 0 /\ last.limit = MaxPageLimit) =>
        /\ Cardinality(ResultPairs) = Len(last.results)
        /\ last.total = Cardinality(ResultPairs)

\* the versions of a list, as a set
Enumerated(versions) == {versions[i] : i \in 1..Len(versions)}

\* C37: a refresh_index leaves the service ready; the registry then holds the
\* versions it held before and the versions the refresh enumerated, the latter
\* with the paths list_files gives for them and the others with the path
\* lists they had.
C37_RefreshOnlyAdds ==
    [][last'.op = "refresh_index" =>
          /\ ready'
          /\ Enumerated(RegistryKeys(registry'))
                = Enumerated(RegistryKeys(registry)) \cup Enumerated(last'.versions)
          /\ \A v \in Enumerated(RegistryKeys(registry')) :
                RegistryGet(registry', v)
                   = IF v \in Enumerated(last'.versions) THEN Some(list_files_ret(v, <<>>))
                     ELSE RegistryGet(registry, v)]_vars

\* after a refresh that enumerated version 2 alone, version 1 is still
\* registered with paths that are not the ones on disk
C37_Witness ==
    /\ last.op = "refresh_index"
    /\ last.versions = <<V2>>
    /\ RegistryHas(registry, V1)
    /\ RegistryGet(registry, V1) # Some(list_files_ret(V1, <<>>))

\* C38: /health reports the three flags as they are; its status is "healthy"
\* with code 200 exactly when the database is connected, the cache is ready
\* and the search service is ready, and "degraded" with code 503 otherwise;
\* and it reports a cache hit rate exactly when the cache is ready.
C38_HealthyIffAllReady ==
    last.op = "health" =>
        /\ last.db_connected = db_connected
        /\ last.cache_ready = cache_connected
        /\ last.search_ready = ready
        /\ (last.status = "healthy" /\ last.status_code = 200)
              <=> (db_connected /\ cache_connected /\ ready)
        /\ (last.status = "degraded" /\ last.status_code = 503)
              <=> ~(db_connected /\ cache_connected /\ ready)
        /\ ~IsNone(last.cache_hit_rate) <=> cache_connected
        /\ cache_connected => last.cache_hit_rate = Some(HitRate(hits, misses))

\* the database and the search service are up and the cache, looked up
\* before, has been disconnected: degraded, 503 and no hit rate
C38_Witness ==
    /\ last.op = "health"
    /\ db_connected
    /\ ready
    /\ ~cache_connected
    /\ hits + misses > 0
    /\ last.status = "degraded"
    /\ last.status_code = 503
    /\ IsNone(last.cache_hit_rate)

\* all three are up: healthy, 200 and a hit rate
C38_WitnessHealthy ==
    /\ last.op = "health"
    /\ last.status = "healthy"
    /\ last.status_code = 200
    /\ hits > 0
    /\ ~IsNone(last.cache_hit_rate)

====
